---- MODULE Spec2Model ----
(***************************************************************************)
(* PDF2UBL: template-driven extraction (templates/template_engine.py,      *)
(* templates/template_manager.py) and document assembly                    *)
(* (exporters/ubl_exporter.py, exporters/ubl_models.py).                   *)
(*                                                                         *)
(* Units.  Confidences are hundredths (0.9 is 90).  Amounts of the record  *)
(* (Python floats) and of line items are whole cents; the Decimal amounts  *)
(* of the assembled document are millionths of a currency unit, so that    *)
(* cents * rate (rate in hundredths of a percent) is exact.  Binary        *)
(* rounding error of float arithmetic is not modelled.                     *)
(*                                                                         *)
(* Text.  The document text is represented by what the re library reports  *)
(* for each expression on it: whether the expression compiles, whether it  *)
(* is found, the matched group (a sequence of characters) and where.       *)
(***************************************************************************)
EXTENDS Integers, Sequences, FiniteSets, TLC

\* ------------------------------------------------------------------ bounds
MaxPatterns == 2
MaxItems == 2
MaxTemplates == 2
MaxFiles == 2
MaxLen == 6
MaxRules == 3

\* ------------------------------------------------------------ Optional[T]
None == [some |-> FALSE, v |-> 0]
Some(x) == [some |-> TRUE, v |-> x]
\* Python truthiness of an Optional[float]: neither None nor 0.0
Truthy(x) == x.some /\ x.v # 0

\* Python binds a name to the value of an expression, evaluated once:
\* F applied to the value of v
Bind(v, F(_)) == CHOOSE y \in {F(x) : x \in {v}} : TRUE

Min(a, b) == IF a < b THEN a ELSE b
Max(a, b) == IF a > b THEN a ELSE b
Abs(a) == IF a < 0 THEN -a ELSE a

\* --------------------------------------------------------------- strings
Digits == {"0", "1", "2", "3", "4", "5", "6", "7", "8", "9"}
DigitVal(c) ==
    CASE c = "0" -> 0 [] c = "1" -> 1 [] c = "2" -> 2 [] c = "3" -> 3
      [] c = "4" -> 4 [] c = "5" -> 5 [] c = "6" -> 6 [] c = "7" -> 7
      [] c = "8" -> 8 [] c = "9" -> 9

Contains(s, c) == \E i \in 1..Len(s) : s[i] = c
\* str.rfind: the last index of c, 0 when absent (Python's -1)
RFind(s, c) == IF Contains(s, c) THEN CHOOSE i \in 1..Len(s) : s[i] = c /\ \A j \in (i+1)..Len(s) : s[j] # c ELSE 0
Remove(s, cs) == SelectSeq(s, LAMBDA c : c \notin cs)
Replace(s, a, b) == [i \in 1..Len(s) |-> IF s[i] = a THEN b ELSE s[i]]
CountOf(s, c) == Cardinality({i \in 1..Len(s) : s[i] = c})
\* str.strip() for the one whitespace character of the alphabet
RECURSIVE LStrip(_)
LStrip(s) == IF s # <<>> /\ Head(s) = " " THEN LStrip(Tail(s)) ELSE s
RECURSIVE RStrip(_)
RStrip(s) == IF s # <<>> /\ s[Len(s)] = " " THEN RStrip(SubSeq(s, 1, Len(s) - 1)) ELSE s
Strip(s) == RStrip(LStrip(s))

RECURSIVE DigitsToInt(_)
DigitsToInt(s) == IF s = <<>> THEN 0 ELSE DigitsToInt(SubSeq(s, 1, Len(s) - 1)) * 10 + DigitVal(s[Len(s)])
AllDigits(s) == \A i \in 1..Len(s) : s[i] \in Digits

\* float(cleaned) for unsigned decimal literals: digits with at most one '.',
\* at least one digit; anything else is a ValueError (None).  The value is
\* returned in cents; literals of the model carry at most two fraction digits
\* (further digits would be cut by the \div).
Float(s) ==
    LET dot == RFind(s, ".")
        ip == IF dot = 0 THEN s ELSE SubSeq(s, 1, dot - 1)
        fp == IF dot = 0 THEN <<>> ELSE SubSeq(s, dot + 1, Len(s))
        fd == Len(fp)
    IN IF CountOf(s, ".") > 1 \/ ~AllDigits(ip) \/ ~AllDigits(fp) \/ Len(ip) + fd = 0
       THEN None
       ELSE Some(DigitsToInt(ip) * 100
                 + (IF fd = 0 THEN 0
                    ELSE IF fd = 1 THEN DigitsToInt(fp) * 10
                    ELSE IF fd = 2 THEN DigitsToInt(fp)
                    ELSE DigitsToInt(SubSeq(fp, 1, 2))))

CurrencyChars == {"E", "$", " "}

\* a variant of _parse_numeric_value that takes the comma for the decimal
\* separator whenever both separators occur
ParseNumericValueEuropean(value_str, remove_currency) ==
    Bind(IF remove_currency THEN Remove(Strip(value_str), CurrencyChars) ELSE Strip(value_str),
         LAMBDA cleaned :
    LET both == Contains(cleaned, ",") /\ Contains(cleaned, ".")
        comma_tail == Len(cleaned) - RFind(cleaned, ",")
        normal ==
            IF both
            THEN Replace(Remove(cleaned, {"."}), ",", ".")
            ELSE IF Contains(cleaned, ",")
                 THEN IF CountOf(cleaned, ",") = 1 /\ comma_tail <= 2
                      THEN Replace(cleaned, ",", ".")
                      ELSE Remove(cleaned, {","})
                 ELSE cleaned
    IN Bind(normal, LAMBDA cleaned_str : Float(cleaned_str)))

\* a variant of _parse_numeric_value that takes a single comma for the
\* decimal separator whatever follows it
ParseNumericValueAnyTail(value_str, remove_currency) ==
    Bind(IF remove_currency THEN Remove(Strip(value_str), CurrencyChars) ELSE Strip(value_str),
         LAMBDA cleaned :
    LET both == Contains(cleaned, ",") /\ Contains(cleaned, ".")
        normal ==
            IF both
            THEN IF RFind(cleaned, ",") > RFind(cleaned, ".")
                 THEN Replace(Remove(cleaned, {"."}), ",", ".")
                 ELSE Remove(cleaned, {","})
            ELSE IF Contains(cleaned, ",")
                 THEN IF CountOf(cleaned, ",") = 1
                      THEN Replace(cleaned, ",", ".")
                      ELSE Remove(cleaned, {","})
                 ELSE cleaned
    IN Bind(normal, LAMBDA cleaned_str : Float(cleaned_str)))

\* TemplateEngine._parse_numeric_value ("E" stands for the euro sign)
ParseNumericValue(value_str, remove_currency) ==
    Bind(IF remove_currency THEN Remove(Strip(value_str), CurrencyChars) ELSE Strip(value_str),
         LAMBDA cleaned :
    LET both == Contains(cleaned, ",") /\ Contains(cleaned, ".")
        comma_tail == Len(cleaned) - RFind(cleaned, ",")
        normal ==
            IF both
            THEN IF RFind(cleaned, ",") > RFind(cleaned, ".")
                 THEN Replace(Remove(cleaned, {"."}), ",", ".")
                 ELSE Remove(cleaned, {","})
            ELSE IF Contains(cleaned, ",")
                 THEN IF CountOf(cleaned, ",") = 1 /\ comma_tail <= 2
                      THEN Replace(cleaned, ",", ".")
                      ELSE Remove(cleaned, {","})
                 ELSE cleaned
    IN Bind(normal, LAMBDA cleaned_str : Float(cleaned_str)))

\* r'^\d+[.,]\d{2}$' of _calculate_pattern_confidence
ProperAmount(s) ==
    /\ Len(s) >= 4
    /\ s[Len(s) - 2] \in {".", ","}
    /\ AllDigits(SubSeq(s, 1, Len(s) - 3))
    /\ AllDigits(SubSeq(s, Len(s) - 1, Len(s)))
\* ------------------------------------------------------- Pattern Matcher
\* A FieldPattern together with what re reports for it on the document text:
\*   long        len(pattern.pattern) > 10
\*   compiles    re accepts the matching expression
\*   found       re.search finds it (keyword method: the keyword is in the text)
\*   group       match.group(1) or match.group(0) (keyword: the text after it)
\*   early       match.start() < 1000
\*   cleanup     "none" | "strip" (removes CurrencyChars) | "invalid"
\*   validation  "none" | "pass" | "fail" | "invalid"
\*   required_context, forbidden_context: per expression "present" | "absent" | "invalid"
\* FieldPattern with the dataclass defaults (template_models.py:32-66), found
\* at the start of the text
FieldPattern(method, field_type, confidence_threshold, group) ==
    [method |-> method, field_type |-> field_type,
     confidence_threshold |-> confidence_threshold, priority |-> 0,
     long |-> FALSE, compiles |-> TRUE, found |-> TRUE, group |-> group,
     early |-> TRUE, cleanup |-> "none", validation |-> "none",
     required_context |-> <<>>, forbidden_context |-> <<>>]

NoValue == [kind |-> "none", num |-> 0, str |-> <<>>]
StrValue(s) == [kind |-> "str", num |-> 0, str |-> s]
NumValue(n) == [kind |-> "num", num |-> n, str |-> <<>>]

\* result of one pattern: (value, confidence), or an exception leaving the call
Result(value, confidence) == [value |-> value, confidence |-> confidence, raised |-> FALSE]
NoMatch == Result(NoValue, 0)
Raised == [value |-> NoValue, confidence |-> 0, raised |-> TRUE]

\* TemplateEngine._check_context: "true" | "false" | "error" (re.error)
RECURSIVE CheckContext(_, _)
CheckContext(context_patterns, required) ==
    IF context_patterns = <<>> THEN (IF required THEN "true" ELSE "false")
    ELSE LET c == Head(context_patterns)
         IN IF c = "invalid" THEN "error"
            ELSE IF required /\ c = "absent" THEN "false"
            ELSE IF ~required /\ c = "present" THEN "true"
            ELSE CheckContext(Tail(context_patterns), required)

\* TemplateEngine._calculate_pattern_confidence
CalculatePatternConfidence(pattern, value) ==
    LET c0 == pattern.confidence_threshold
        c1 == IF pattern.long THEN c0 + 10 ELSE c0
        c2 == IF pattern.field_type = "amount" /\ ProperAmount(value) THEN c1 + 20 ELSE c1
        c3 == IF pattern.early THEN c2 + 10 ELSE c2
    IN Min(c3, 100)

\* the body of the try block of _apply_regex_pattern (lines 158-195)
RegexTry(pattern) ==
    IF ~pattern.compiles THEN Raised
    ELSE IF ~pattern.found THEN NoMatch
    ELSE IF pattern.cleanup = "invalid" THEN Raised
    ELSE LET value == IF pattern.cleanup = "strip" THEN Remove(pattern.group, CurrencyChars)
                      ELSE pattern.group
             req == CheckContext(pattern.required_context, TRUE)
             forb == CheckContext(pattern.forbidden_context, FALSE)
         IN IF pattern.validation = "invalid" THEN Raised
            ELSE IF pattern.validation = "fail" THEN NoMatch
            ELSE IF pattern.required_context # <<>> /\ req = "error" THEN Raised
            ELSE IF pattern.required_context # <<>> /\ req = "false" THEN NoMatch
            ELSE IF pattern.forbidden_context # <<>> /\ forb = "error" THEN Raised
            ELSE IF pattern.forbidden_context # <<>> /\ forb = "true" THEN NoMatch
            ELSE Result(StrValue(Strip(value)), CalculatePatternConfidence(pattern, value))

\* a variant of _apply_regex_pattern whose except clause is missing
ApplyRegexPatternNoExcept(pattern) == RegexTry(pattern)

\* TemplateEngine._apply_regex_pattern: re.error is caught and logged
ApplyRegexPattern(pattern) ==
    LET r == RegexTry(pattern) IN IF r.raised THEN NoMatch ELSE r

\* TemplateEngine._apply_keyword_pattern: the text after the keyword with
\* separators removed, at the configured confidence; an empty value is skipped
ApplyKeywordPattern(pattern) ==
    IF pattern.found /\ Strip(pattern.group) # <<>>
    THEN Result(StrValue(Strip(pattern.group)), pattern.confidence_threshold)
    ELSE NoMatch

\* TemplateEngine._apply_position_pattern
ApplyPositionPattern(pattern) == NoMatch

\* TemplateEngine._apply_pattern
ApplyPattern(pattern) ==
    IF pattern.method = "regex" THEN ApplyRegexPattern(pattern)
    ELSE IF pattern.method = "keyword" THEN ApplyKeywordPattern(pattern)
    ELSE IF pattern.method = "position" THEN ApplyPositionPattern(pattern)
    ELSE NoMatch

\* -------------------------------------------------------- Field Resolver
\* sorted(rule.patterns, key=priority, reverse=True): indices of patterns by
\* descending priority, equal priorities in list order (the sort is stable)
RECURSIVE SortedIdx(_, _)
SortedIdx(patterns, left) ==
    IF left = {} THEN <<>>
    ELSE LET i == CHOOSE i \in left : \A j \in left :
                    \/ patterns[i].priority > patterns[j].priority
                    \/ patterns[i].priority = patterns[j].priority /\ i <= j
         IN <<i>> \o SortedIdx(patterns, left \ {i})
SortedPatterns(patterns) == SortedIdx(patterns, 1..Len(patterns))

\* TemplateEngine._convert_field_type
ConvertFieldType(value, field_type) ==
    IF value.kind # "str" THEN value
    ELSE IF field_type = "amount"
         THEN Bind(ParseNumericValue(value.str, TRUE),
                   LAMBDA n : IF n.some THEN NumValue(n.v) ELSE NoValue)
         ELSE IF field_type = "number"
         THEN Bind(ParseNumericValue(value.str, FALSE),
                   LAMBDA n : IF n.some THEN NumValue(n.v) ELSE NoValue)
         ELSE value

\* loop state of _extract_field
Best(value, confidence, evaluated, raised) ==
    [value |-> value, confidence |-> confidence, evaluated |-> evaluated, raised |-> raised]

\* a variant of the loop that never leaves early
RECURSIVE PatternLoopNoBreak(_, _, _)
PatternLoopNoBreak(patterns, order, b) ==
    IF order = <<>> \/ b.raised THEN b
    ELSE Bind(ApplyPattern(patterns[Head(order)]), LAMBDA r :
         LET ev == Append(b.evaluated, Head(order))
         IN IF r.raised THEN Best(b.value, b.confidence, ev, TRUE)
            ELSE IF r.value.kind # "none" /\ r.confidence > b.confidence
            THEN PatternLoopNoBreak(patterns, Tail(order), Best(r.value, r.confidence, ev, FALSE))
            ELSE PatternLoopNoBreak(patterns, Tail(order), Best(b.value, b.confidence, ev, FALSE)))

\* the loop over sorted_patterns leaving at the first confidence > 0.9 (lines 93-102)
RECURSIVE PatternLoop(_, _, _)
PatternLoop(patterns, order, b) ==
    IF order = <<>> \/ b.raised THEN b
    ELSE Bind(ApplyPattern(patterns[Head(order)]), LAMBDA r :
         LET ev == Append(b.evaluated, Head(order))
         IN IF r.raised THEN Best(b.value, b.confidence, ev, TRUE)
            ELSE IF r.value.kind # "none" /\ r.confidence > b.confidence
            THEN IF r.confidence > 90
                 THEN Best(r.value, r.confidence, ev, FALSE)
                 ELSE PatternLoop(patterns, Tail(order), Best(r.value, r.confidence, ev, FALSE))
            ELSE PatternLoop(patterns, Tail(order), Best(b.value, b.confidence, ev, FALSE)))

\* a variant of the fallback loop that takes every value a pattern finds
RECURSIVE FallbackLoopAny(_, _, _)
FallbackLoopAny(patterns, order, b) ==
    IF order = <<>> \/ b.raised THEN b
    ELSE Bind(ApplyPattern(patterns[Head(order)]), LAMBDA r :
         LET ev == Append(b.evaluated, Head(order))
         IN IF r.raised THEN Best(b.value, b.confidence, ev, TRUE)
            ELSE IF r.value.kind # "none"
            THEN FallbackLoopAny(patterns, Tail(order), Best(r.value, r.confidence, ev, FALSE))
            ELSE FallbackLoopAny(patterns, Tail(order), Best(b.value, b.confidence, ev, FALSE)))

\* the loop over rule.fallback_patterns (lines 106-111)
RECURSIVE FallbackLoop(_, _, _)
FallbackLoop(patterns, order, b) ==
    IF order = <<>> \/ b.raised THEN b
    ELSE Bind(ApplyPattern(patterns[Head(order)]), LAMBDA r :
         LET ev == Append(b.evaluated, Head(order))
         IN IF r.raised THEN Best(b.value, b.confidence, ev, TRUE)
            ELSE IF r.value.kind # "none" /\ r.confidence > b.confidence
            THEN FallbackLoop(patterns, Tail(order), Best(r.value, r.confidence, ev, FALSE))
            ELSE FallbackLoop(patterns, Tail(order), Best(b.value, b.confidence, ev, FALSE)))

Idx(s) == [i \in 1..Len(s) |-> i]

\* TemplateEngine._extract_field.  evaluated / fallback_evaluated list the
\* patterns handed to _apply_pattern, in call order, by their position in
\* rule.patterns / rule.fallback_patterns.
ExtractField(rule) ==
    Bind(PatternLoop(rule.patterns, SortedPatterns(rule.patterns),
                     Best(NoValue, 0, <<>>, FALSE)), LAMBDA main :
    Bind(IF ~main.raised /\ main.confidence < rule.min_confidence
            /\ rule.fallback_patterns # <<>>
         THEN FallbackLoop(rule.fallback_patterns, Idx(rule.fallback_patterns),
                           Best(main.value, main.confidence, <<>>, FALSE))
         ELSE Best(main.value, main.confidence, <<>>, main.raised), LAMBDA fb :
    LET use_default == fb.value.kind = "none" /\ rule.default_value.some
        best_value == IF use_default THEN StrValue(rule.default_value.v) ELSE fb.value
        best_confidence == IF use_default THEN 10 ELSE fb.confidence
    IN [value |-> IF fb.raised THEN NoValue ELSE ConvertFieldType(best_value, rule.field_type),
        confidence |-> IF fb.raised THEN 0 ELSE best_confidence,
        from_default |-> ~fb.raised /\ use_default,
        evaluated |-> main.evaluated,
        fallback_evaluated |-> fb.evaluated,
        raised |-> fb.raised]))
\* ------------------------------------------------- Extraction Orchestrator
AmountFields == {"total_amount", "vat_amount", "net_amount"}
Fields == AmountFields \cup {"invoice_number"}

\* ExtractedInvoiceData() (extractors/pdf_extractor.py:16-58).  origin is a
\* history field: what wrote the current value of each field ("none",
\* "pattern", "default", "summary", "derived") and, for a pattern or default,
\* the confidence _extract_field returned with it.
ExtractedInvoiceData ==
    [invoice_number |-> NoValue,
     total_amount |-> None, vat_amount |-> None, net_amount |-> None,
     currency |-> "EUR",
     line_items |-> <<>>,
     confidence_scores |-> [f \in Fields |-> None],
     origin |-> [f \in Fields |-> [by |-> "none", confidence |-> 0]]]

\* setattr(data, rule.field_name, field_value)
SetAttr(data, field_name, value) ==
    IF field_name = "invoice_number" THEN [data EXCEPT !.invoice_number = value]
    ELSE [data EXCEPT ![field_name] = IF value.kind = "num" THEN Some(value.num) ELSE None]

\* the loop over template.extraction_rules of apply_template (lines 50-58)
RECURSIVE ApplyRules(_, _)
ApplyRules(rules, acc) ==
    IF rules = <<>> \/ acc.raised THEN acc
    ELSE Bind(ExtractField(Head(rules)), LAMBDA r :
         LET rule == Head(rules)
             stored == [SetAttr(acc.data, rule.field_name, r.value) EXCEPT
                          !.confidence_scores[rule.field_name] = Some(r.confidence),
                          !.origin[rule.field_name] =
                              [by |-> IF r.from_default THEN "default" ELSE "pattern",
                               confidence |-> r.confidence]]
         IN ApplyRules(Tail(rules),
                [data |-> IF ~r.raised /\ r.value.kind # "none" THEN stored ELSE acc.data,
                 results |-> Append(acc.results, r),
                 raised |-> r.raised]))

\* TemplateEngine._table_matches_rule: some header pattern of the rule is
\* found in some header of the table
TableMatchesRule(table, table_rule) == table_rule.header \in table.headers

\* the summary dictionary of TableExtractor.extract_summary_data
NoSummary == [subtotal |-> None, vat_amount |-> None, total_amount |-> None]

\* TemplateEngine._extract_table_data: rows of the first matching table, by
\* TableExtractor.extract_line_items / extract_summary_data
ExtractTableData(table_rule, extracted_tables) ==
    LET hits == {i \in 1..Len(extracted_tables) : TableMatchesRule(extracted_tables[i], table_rule)}
    IN IF hits = {} THEN <<>>
       ELSE LET t == extracted_tables[CHOOSE i \in hits : \A j \in hits : i <= j]
            IN IF table_rule.table_name = "line_items"
               THEN (IF t.table_type = "line_items" THEN t.items ELSE <<>>)
               ELSE IF table_rule.table_name = "summary"
               THEN <<IF t.table_type = "summary" THEN t.summary ELSE NoSummary>>
               ELSE <<>>

\* TemplateEngine._update_summary_data
UpdateSummaryData(data, summary_data) ==
    IF summary_data = <<>> THEN data
    ELSE LET summary == summary_data[1]
             d1 == IF Truthy(summary.subtotal)
                   THEN [data EXCEPT !.net_amount = summary.subtotal,
                                     !.origin["net_amount"] = [by |-> "summary", confidence |-> 0]]
                   ELSE data
             d2 == IF Truthy(summary.vat_amount)
                   THEN [d1 EXCEPT !.vat_amount = summary.vat_amount,
                                   !.origin["vat_amount"] = [by |-> "summary", confidence |-> 0]]
                   ELSE d1
         IN IF Truthy(summary.total_amount)
            THEN [d2 EXCEPT !.total_amount = summary.total_amount,
                            !.origin["total_amount"] = [by |-> "summary", confidence |-> 0]]
            ELSE d2

\* the loop over template.table_rules of apply_template (lines 64-70)
RECURSIVE ApplyTableRules(_, _, _)
ApplyTableRules(table_rules, extracted_tables, data) ==
    IF table_rules = <<>> THEN data
    ELSE LET table_rule == Head(table_rules)
             table_data == ExtractTableData(table_rule, extracted_tables)
             next == IF table_rule.table_name = "line_items"
                     THEN [data EXCEPT !.line_items = table_data]
                     ELSE IF table_rule.table_name = "summary"
                     THEN UpdateSummaryData(data, table_data)
                     ELSE data
         IN ApplyTableRules(Tail(table_rules), extracted_tables, next)

\* TemplateEngine._post_process_data.  Amounts written by an amount rule or a
\* summary table are floats, so the string conversion of lines 445-452 finds
\* nothing to convert; data.currency is never empty.
PostProcessData(data) ==
    IF Truthy(data.total_amount) /\ Truthy(data.vat_amount) /\ ~Truthy(data.net_amount)
    THEN [data EXCEPT !.net_amount = Some(data.total_amount.v - data.vat_amount.v),
                      !.origin["net_amount"] = [by |-> "derived", confidence |-> 0]]
    ELSE IF Truthy(data.net_amount) /\ Truthy(data.vat_amount) /\ ~Truthy(data.total_amount)
    THEN [data EXCEPT !.total_amount = Some(data.net_amount.v + data.vat_amount.v),
                      !.origin["total_amount"] = [by |-> "derived", confidence |-> 0]]
    ELSE data

\* TemplateEngine.apply_template.  tables: the ExtractedTable list of
\* TableExtractor.extract_tables; text_items: the rows the text scan
\* _extract_line_items_from_text finds in raw_text.
ApplyTemplate(template, tables, text_items) ==
    Bind(ApplyRules(template.extraction_rules,
                    [data |-> ExtractedInvoiceData, results |-> <<>>, raised |-> FALSE]),
         LAMBDA fields :
    LET tabled == IF tables # <<>>
                  THEN ApplyTableRules(template.table_rules, tables, fields.data)
                  ELSE fields.data
        itemed == IF tabled.line_items = <<>>
                  THEN [tabled EXCEPT !.line_items = text_items]
                  ELSE tabled
    IN [data |-> IF fields.raised THEN ExtractedInvoiceData ELSE PostProcessData(itemed),
        results |-> fields.results,
        raised |-> fields.raised])
\* ---------------------------------------------------- Document Assembler
\* Decimal amount (millionths) of a float amount in cents
Micro(cents) == cents * 10000

\* UBLExporter.default_vat_rate, Decimal("21.00"), in hundredths of a percent
DefaultVatRate == 2100

NoTaxCategory == [some |-> FALSE, tax_category_id |-> "S", percent |-> 0]
\* UBLTaxCategory(tax_category_id="S", percent=vat_rate)
UBLTaxCategory(percent) == [some |-> TRUE, tax_category_id |-> "S", percent |-> percent]

NoLegalMonetaryTotal ==
    [some |-> FALSE, line_extension_amount |-> 0, tax_exclusive_amount |-> 0,
     tax_inclusive_amount |-> 0, payable_amount |-> 0]

\* UBLInvoice(...) as built by _create_ubl_invoice before any line is added
UBLInvoice ==
    [invoice_lines |-> <<>>, tax_total |-> <<>>,
     legal_monetary_total |-> NoLegalMonetaryTotal]

\* UBLInvoice.add_line_item; vat_rate is an Optional percentage
AddLineItem(invoice, quantity, unit_price, vat_rate) ==
    [invoice EXCEPT !.invoice_lines = Append(@,
        [invoiced_quantity |-> quantity,
         price_amount |-> unit_price,
         line_extension_amount |-> quantity * unit_price,
         tax_category |-> IF vat_rate.some THEN UBLTaxCategory(vat_rate.v) ELSE NoTaxCategory])]

\* UBLExporter._determine_vat_rate with template_config = None
DetermineVatRate(item_data) ==
    IF item_data.vat_rate.some THEN item_data.vat_rate.v ELSE DefaultVatRate

\* UBLExporter._add_line_items.  Quantities of the model divide the total, so
\* total_amount / quantity is exact.
RECURSIVE AddLineItems(_, _)
AddLineItems(invoice, line_items) ==
    IF line_items = <<>> THEN invoice
    ELSE LET item_data == Head(line_items)
             quantity == item_data.quantity
             unit_price == IF item_data.unit_price = 0 /\ item_data.total_amount > 0 /\ quantity > 0
                           THEN item_data.total_amount \div quantity
                           ELSE item_data.unit_price
         IN AddLineItems(AddLineItem(invoice, quantity, unit_price, Some(DetermineVatRate(item_data))),
                         Tail(line_items))

\* round(x, 2) of the rate vat / net * 100, in hundredths of a percent
RoundRate(vat_amount, net_amount) == (2 * vat_amount * 10000 + net_amount) \div (2 * net_amount)

\* UBLExporter._add_summary_line_item
AddSummaryLineItem(invoice, data) ==
    LET n0 == IF Truthy(data.net_amount) THEN data.net_amount.v
              ELSE IF data.total_amount.some THEN data.total_amount.v ELSE 0
        n1 == IF Truthy(data.vat_amount) /\ Truthy(data.total_amount)
              THEN data.total_amount.v - data.vat_amount.v
              ELSE n0
        net_amount == IF n1 = 0
                      THEN (IF Truthy(data.total_amount) THEN data.total_amount.v ELSE 0)
                      ELSE n1
        vat_rate == IF Truthy(data.vat_amount) /\ net_amount > 0
                    THEN RoundRate(data.vat_amount.v, net_amount)
                    ELSE DefaultVatRate
    IN AddLineItem(invoice, 1, net_amount, Some(vat_rate))

\* lines 169-174 of _create_ubl_invoice: the lines of the record, or one
\* summary line when there is none and a total was extracted
AddLines(data) ==
    LET invoice == AddLineItems(UBLInvoice, data.line_items)
    IN IF invoice.invoice_lines = <<>> /\ Truthy(data.total_amount)
       THEN AddSummaryLineItem(invoice, data)
       ELSE invoice

RECURSIVE SumLineExtension(_)
SumLineExtension(lines) ==
    IF lines = <<>> THEN 0
    ELSE Micro(Head(lines).line_extension_amount) + SumLineExtension(Tail(lines))

\* tax of one line: line_extension_amount * (percent / 100), nothing for a
\* percent of 0 or None
LineTax(line) ==
    IF line.tax_category.some /\ line.tax_category.percent # 0
    THEN line.line_extension_amount * line.tax_category.percent
    ELSE 0

RECURSIVE SumLineTax(_)
SumLineTax(lines) == IF lines = <<>> THEN 0 ELSE LineTax(Head(lines)) + SumLineTax(Tail(lines))

\* the tax_categories dictionary of calculate_totals turned into subtotals:
\* one per tax_category_id, carrying the category of the first line that has it
TaxSubtotals(lines) ==
    LET taxed == SelectSeq(lines, LAMBDA l : l.tax_category.some)
    IN IF taxed = <<>> THEN <<>>
       ELSE <<[taxable_amount |-> SumLineExtension(taxed),
               tax_amount |-> SumLineTax(taxed),
               tax_category |-> taxed[1].tax_category]>>

RECURSIVE SumTaxAmount(_)
SumTaxAmount(subtotals) ==
    IF subtotals = <<>> THEN 0 ELSE Head(subtotals).tax_amount + SumTaxAmount(Tail(subtotals))

\* a variant of calculate_totals whose payable amount leaves the tax out
CalculateTotalsNoTax(invoice) ==
    IF invoice.invoice_lines = <<>> THEN invoice
    ELSE LET line_extension_amount == SumLineExtension(invoice.invoice_lines)
             tax_subtotals == TaxSubtotals(invoice.invoice_lines)
             total_tax_amount == SumTaxAmount(tax_subtotals)
         IN [invoice EXCEPT
               !.tax_total = IF tax_subtotals # <<>>
                             THEN <<[tax_amount |-> total_tax_amount, tax_subtotals |-> tax_subtotals]>>
                             ELSE @,
               !.legal_monetary_total =
                   [some |-> TRUE,
                    line_extension_amount |-> line_extension_amount,
                    tax_exclusive_amount |-> line_extension_amount,
                    tax_inclusive_amount |-> line_extension_amount + total_tax_amount,
                    payable_amount |-> line_extension_amount]]

\* UBLInvoice.calculate_totals
CalculateTotals(invoice) ==
    IF invoice.invoice_lines = <<>> THEN invoice
    ELSE LET line_extension_amount == SumLineExtension(invoice.invoice_lines)
             tax_subtotals == TaxSubtotals(invoice.invoice_lines)
             total_tax_amount == SumTaxAmount(tax_subtotals)
         IN [invoice EXCEPT
               !.tax_total = IF tax_subtotals # <<>>
                             THEN <<[tax_amount |-> total_tax_amount, tax_subtotals |-> tax_subtotals]>>
                             ELSE @,
               !.legal_monetary_total =
                   [some |-> TRUE,
                    line_extension_amount |-> line_extension_amount,
                    tax_exclusive_amount |-> line_extension_amount,
                    tax_inclusive_amount |-> line_extension_amount + total_tax_amount,
                    payable_amount |-> line_extension_amount + total_tax_amount]]

\* a variant of _validate_totals that adjusts payable_amount alone
ValidateTotalsPayableOnly(invoice, data) ==
    IF ~invoice.legal_monetary_total.some THEN invoice
    ELSE LET calculated_total == invoice.legal_monetary_total.payable_amount
             difference == Abs(calculated_total - Micro(data.total_amount.v))
         IN IF Truthy(data.total_amount) /\ calculated_total # 0
               /\ difference > Micro(1) /\ difference <= Micro(100)
            THEN [invoice EXCEPT !.legal_monetary_total.payable_amount = Micro(data.total_amount.v)]
            ELSE invoice

\* a variant of _validate_totals that adjusts whatever the difference
ValidateTotalsNoLimit(invoice, data) ==
    IF ~invoice.legal_monetary_total.some THEN invoice
    ELSE LET calculated_total == invoice.legal_monetary_total.payable_amount
             difference == Abs(calculated_total - Micro(data.total_amount.v))
         IN IF Truthy(data.total_amount) /\ calculated_total # 0 /\ difference > Micro(1)
            THEN [invoice EXCEPT
                    !.legal_monetary_total.payable_amount = Micro(data.total_amount.v),
                    !.legal_monetary_total.tax_inclusive_amount = Micro(data.total_amount.v)]
            ELSE invoice

\* UBLExporter._validate_totals
ValidateTotals(invoice, data) ==
    IF ~invoice.legal_monetary_total.some THEN invoice
    ELSE LET calculated_total == invoice.legal_monetary_total.payable_amount
             difference == Abs(calculated_total - Micro(data.total_amount.v))
         IN IF Truthy(data.total_amount) /\ calculated_total # 0
               /\ difference > Micro(1) /\ difference <= Micro(100)
            THEN [invoice EXCEPT
                    !.legal_monetary_total.payable_amount = Micro(data.total_amount.v),
                    !.legal_monetary_total.tax_inclusive_amount = Micro(data.total_amount.v)]
            ELSE invoice
\* -------------------------------------------- Supplier/Template Selector
\* A catalog Template as the selector sees it on one document text:
\*   supplier_name      "" when the template declares none
\*   name_in_text       supplier_name.lower() in text.lower()
\*   aliases_in_text    per alias: alias.lower() in text.lower()
\*   supplier_patterns  per pattern: the FieldPattern, whether the matched
\*                      value contains the supplier name, and how many aliases
\*   name_has_hint      the supplier hint is a substring of supplier_name
\*   alias_in_hint      some alias is a substring of the supplier hint
\*   hint_in_alias      the supplier hint is a substring of some alias
Template(template_id, supplier_name, name_in_text, aliases_in_text, supplier_patterns) ==
    [template_id |-> template_id, supplier_name |-> supplier_name,
     name_in_text |-> name_in_text, aliases_in_text |-> aliases_in_text,
     supplier_patterns |-> supplier_patterns,
     name_has_hint |-> FALSE, alias_in_hint |-> FALSE, hint_in_alias |-> FALSE]

\* a variant of the loop that takes every pattern that finds a value
RECURSIVE SupplierPatternLoopAny(_, _, _)
SupplierPatternLoopAny(template, patterns, best_confidence) ==
    IF patterns = <<>> THEN best_confidence
    ELSE LET sp == Head(patterns)
             r == ApplyPattern(sp.pattern)
             hit == r.value.kind = "str" /\ r.value.str # <<>>
             boosted == r.confidence
                        + (IF template.supplier_name # "" /\ sp.name_in_value THEN 30 ELSE 0)
                        + 20 * sp.aliases_in_value
         IN SupplierPatternLoopAny(template, Tail(patterns), IF hit THEN boosted ELSE best_confidence)

\* the loop over template.supplier_patterns of match_supplier (lines 487-501)
RECURSIVE SupplierPatternLoop(_, _, _)
SupplierPatternLoop(template, patterns, best_confidence) ==
    IF patterns = <<>> THEN best_confidence
    ELSE LET sp == Head(patterns)
             r == ApplyPattern(sp.pattern)
             hit == r.value.kind = "str" /\ r.value.str # <<>> /\ r.confidence > best_confidence
             boosted == r.confidence
                        + (IF template.supplier_name # "" /\ sp.name_in_value THEN 30 ELSE 0)
                        + 20 * sp.aliases_in_value
         IN SupplierPatternLoop(template, Tail(patterns), IF hit THEN boosted ELSE best_confidence)

\* the confidence match_supplier reaches before the final min(., 1.0)
SupplierConfidence(template) ==
    LET by_name == IF template.supplier_name # "" /\ template.name_in_text THEN 80 ELSE 0
        by_alias == IF \E i \in 1..Len(template.aliases_in_text) : template.aliases_in_text[i]
                    THEN Max(by_name, 70) ELSE by_name
    IN SupplierPatternLoop(template, template.supplier_patterns, by_alias)

\* TemplateEngine.match_supplier: (match_found, final_confidence)
MatchSupplier(template) ==
    [match_found |-> SupplierConfidence(template) > 50,
     confidence |-> Min(SupplierConfidence(template), 100)]

\* TemplateManager.get_templates_by_supplier
GetTemplatesBySupplier(templates) ==
    SelectSeq(templates, LAMBDA t : (t.supplier_name # "" /\ t.name_has_hint) \/ t.alias_in_hint)

\* a variant of the loop that keeps the last matching candidate
RECURSIVE BestCandidateLast(_, _)
BestCandidateLast(candidates, best) ==
    IF candidates = <<>> THEN best
    ELSE LET template == Head(candidates)
             m == MatchSupplier(template)
         IN IF template.template_id = "generic_nl" THEN BestCandidateLast(Tail(candidates), best)
            ELSE IF m.match_found
            THEN BestCandidateLast(Tail(candidates),
                                   [best_template |-> template.template_id, best_score |-> m.confidence])
            ELSE BestCandidateLast(Tail(candidates), best)

\* the loop over candidates of find_best_template (lines 109-120)
RECURSIVE BestCandidate(_, _)
BestCandidate(candidates, best) ==
    IF candidates = <<>> THEN best
    ELSE LET template == Head(candidates)
             m == MatchSupplier(template)
         IN IF template.template_id = "generic_nl" THEN BestCandidate(Tail(candidates), best)
            ELSE IF m.match_found /\ m.confidence > best.best_score
            THEN BestCandidate(Tail(candidates),
                               [best_template |-> template.template_id, best_score |-> m.confidence])
            ELSE BestCandidate(Tail(candidates), best)

\* TemplateManager.find_best_template: the template_id returned ("None" when
\* nothing is), with the best score of the loop
FindBestTemplate(templates, supplier_hint) ==
    LET supplier_templates == GetTemplatesBySupplier(templates)
        candidates == IF supplier_hint /\ supplier_templates # <<>> THEN supplier_templates ELSE templates
        best == BestCandidate(candidates, [best_template |-> "None", best_score |-> 0])
        has_generic == \E i \in 1..Len(templates) : templates[i].template_id = "generic_nl"
    IN [template |-> IF best.best_template # "None" /\ best.best_score >= 50 THEN best.best_template
                     ELSE IF has_generic THEN "generic_nl" ELSE "None",
        best_score |-> best.best_score,
        candidates |-> candidates]
\* ------------------------------------------------------------------ inputs
SeqsUpTo(S, n) == UNION {[1..k -> S] : k \in 0..n}

\* matched texts ("E" stands for the euro sign)
S_121_00 == <<"1", "2", "1", ",", "0", "0">>
S_125_00 == <<"1", "2", "5", ",", "0", "0">>
S_121_50 == <<"1", "2", "1", ",", "5", "0">>
S_100_00 == <<"1", "0", "0", ",", "0", "0">>
S_21_00 == <<"2", "1", ",", "0", "0">>
S_0_00 == <<"0", ",", "0", "0">>
S_E_121 == <<"E", " ", "1", "2", "1">>
S_E_121_00 == <<"E", " ", "1", "2", "1", ",", "0", "0">>
S_text == <<"n", "/", "a">>

\* patterns of an amount rule and what re reports for them
pStrong == [FieldPattern("regex", "amount", 80, S_121_00) EXCEPT !.long = TRUE]
pMid == FieldPattern("regex", "amount", 50, S_125_00)
pWeak == FieldPattern("regex", "amount", 5, S_E_121)
pLate == [FieldPattern("regex", "amount", 70, S_E_121_00) EXCEPT !.early = FALSE, !.cleanup = "strip"]
pKeyword == FieldPattern("keyword", "amount", 95, S_121_50)
pNoMatch == [FieldPattern("regex", "amount", 80, <<>>) EXCEPT !.found = FALSE]
pBadExpr == [FieldPattern("regex", "amount", 80, S_121_00) EXCEPT !.compiles = FALSE]
pBadCleanup == [FieldPattern("regex", "amount", 80, S_121_00) EXCEPT !.cleanup = "invalid"]
pBadValidation == [FieldPattern("regex", "amount", 80, S_121_00) EXCEPT !.validation = "invalid"]
pBadContext == [FieldPattern("regex", "amount", 80, S_121_00) EXCEPT !.forbidden_context = <<"absent", "invalid">>]
pRejected == [FieldPattern("regex", "amount", 80, S_text) EXCEPT !.validation = "fail"]
pPosition == FieldPattern("position", "amount", 80, S_121_00)

\* patterns whose confidence_threshold lies outside [0, 1]: FieldPattern,
\* PatternCreate and Template.from_dict take any float
pOver == FieldPattern("keyword", "amount", 150, S_121_00)
pUnder == FieldPattern("regex", "amount", -50, S_text)

PatternPool ==
    {pStrong, pMid, pWeak, pLate, pKeyword, pNoMatch, pBadExpr, pBadCleanup,
     pBadValidation, pBadContext, pRejected, pPosition}

\* priorities of a pattern list: all 0 (the default), or rising with the position
WithPriorities(patterns, rising) ==
    [i \in 1..Len(patterns) |-> [patterns[i] EXCEPT !.priority = IF rising THEN i ELSE 0]]

NoDefault == [some |-> FALSE, v |-> <<>>]

\* ExtractionRule(field_name, field_type, patterns) with min_confidence 0.3
ExtractionRule(field_name, field_type, patterns) ==
    [field_name |-> field_name, field_type |-> field_type, patterns |-> patterns,
     fallback_patterns |-> <<>>, min_confidence |-> 30, default_value |-> NoDefault]

AmountRule(field_name, text) ==
    ExtractionRule(field_name, "amount", <<FieldPattern("regex", "amount", 80, text)>>)

\* rules of one amount field with up to MaxPatterns patterns
ProbeRules ==
    {[ExtractionRule("total_amount", "amount", WithPriorities(ps, rising)) EXCEPT
        !.fallback_patterns = fb, !.min_confidence = mc, !.default_value = dv] :
        ps \in SeqsUpTo(PatternPool, MaxPatterns), rising \in BOOLEAN,
        fb \in {<<>>, <<pMid>>, <<pBadExpr, pWeak>>}, mc \in {30, 95},
        dv \in {NoDefault, Some(S_0_00)}}

\* line item dictionaries: quantity, unit_price and total_amount of a row,
\* vat_rate an Optional percentage (hundredths of a percent)
Item(quantity, unit_price, total_amount, vat_rate) ==
    [quantity |-> quantity, unit_price |-> unit_price, total_amount |-> total_amount,
     vat_rate |-> vat_rate]
ItemPool == {Item(1, 10000, 10000, None), Item(2, 0, 5000, Some(900)), Item(1, 1005, 1005, None)}
ItemLists == SeqsUpTo(ItemPool, MaxItems)

\* ExtractedTable as far as _extract_table_data reads it
ExtractedTable(headers, table_type, items, summary) ==
    [headers |-> headers, table_type |-> table_type, items |-> items, summary |-> summary]
TableRule(table_name, header) == [table_name |-> table_name, header |-> header]

SummaryRows == [subtotal |-> Some(10000), vat_amount |-> Some(2100), total_amount |-> Some(12100)]
TotalRow == [subtotal |-> None, vat_amount |-> None, total_amount |-> Some(13000)]

\* (table_rules, tables) pairs
TableInputs ==
    {<< <<>>, <<>> >>,
     << <<TableRule("summary", "totaal")>>, <<ExtractedTable({"totaal"}, "summary", <<>>, SummaryRows)>> >>,
     << <<TableRule("summary", "totaal")>>, <<ExtractedTable({"totaal"}, "summary", <<>>, TotalRow)>> >>,
     << <<TableRule("summary", "totaal")>>, <<ExtractedTable({"totaal"}, "unknown", <<>>, NoSummary)>> >>,
     << <<TableRule("line_items", "omschrijving")>>,
        <<ExtractedTable({"omschrijving"}, "line_items", <<Item(1, 10000, 10000, None)>>, NoSummary)>> >>,
     << <<TableRule("line_items", "omschrijving"), TableRule("line_items", "artikel")>>,
        <<ExtractedTable({"omschrijving"}, "line_items", <<Item(1, 10000, 10000, None)>>, NoSummary)>> >>,
     << <<TableRule("line_items", "omschrijving"), TableRule("summary", "totaal")>>,
        <<ExtractedTable({"totaal"}, "summary", <<>>, SummaryRows),
          ExtractedTable({"omschrijving"}, "line_items", <<Item(2, 0, 5000, Some(900))>>, NoSummary)>> >>}

OptionalRule(field_name, texts) == {<<>>} \cup {<<AmountRule(field_name, t)>> : t \in texts}

\* templates: a rule with many patterns followed by a plain one, or up to
\* three plain amount rules with table rules
ExtractionTemplate(extraction_rules, table_rules) ==
    [extraction_rules |-> extraction_rules, table_rules |-> table_rules]

ProbeInputs ==
    {[template |-> ExtractionTemplate(<<r, AmountRule("vat_amount", S_21_00)>>, <<>>),
      tables |-> <<>>, text_items |-> <<>>] : r \in ProbeRules}

\* a template whose only rule has a keyword pattern of confidence_threshold 1.5
OverInputs ==
    {[template |-> ExtractionTemplate(<<ExtractionRule("total_amount", "amount", <<pOver>>)>>, <<>>),
      tables |-> <<>>, text_items |-> <<>>]}

AmountInputs ==
    {[template |-> ExtractionTemplate(t \o v \o n, tb[1]), tables |-> tb[2], text_items |-> ti] :
        t \in OptionalRule("total_amount", {S_121_00, S_125_00, S_0_00}),
        v \in OptionalRule("vat_amount", {S_21_00, S_0_00}),
        n \in OptionalRule("net_amount", {S_100_00}),
        tb \in TableInputs,
        ti \in {<<>>, <<Item(1, 10000, 10000, None)>>}}

NoInput == [template |-> ExtractionTemplate(<<>>, <<>>), tables |-> <<>>, text_items |-> <<>>]

\* records handed to export_to_ubl without a template run (examples/sample_usage.py:47)
Records ==
    {[ExtractedInvoiceData EXCEPT !.total_amount = t, !.vat_amount = v, !.net_amount = n,
                                  !.line_items = li] :
        t \in {None, Some(0), Some(12100), Some(12101), Some(12150), Some(12500)},
        v \in {None, Some(0), Some(2100)},
        n \in {None, Some(10000)},
        li \in ItemLists}

\* supplier patterns of a catalog template
SupplierPattern(pattern, name_in_value, aliases_in_value) ==
    [pattern |-> pattern, name_in_value |-> name_in_value, aliases_in_value |-> aliases_in_value]
spHalf == SupplierPattern(FieldPattern("keyword", "text", 50, S_text), FALSE, 0)
spLow == SupplierPattern(FieldPattern("keyword", "text", 30, S_text), FALSE, 0)
spLowNamed == SupplierPattern(FieldPattern("keyword", "text", 30, S_text), TRUE, 1)
spHigh == SupplierPattern(FieldPattern("regex", "text", 90, S_text), TRUE, 0)
spBad == SupplierPattern([FieldPattern("regex", "text", 90, S_text) EXCEPT !.compiles = FALSE], FALSE, 0)

\* non-generic templates of a catalog (template_id is set by the position)
TemplatePool ==
    {Template("", "", FALSE, <<>>, <<>>),
     Template("", "", FALSE, <<>>, <<spHalf>>),
     Template("", "", FALSE, <<TRUE>>, <<>>),
     Template("", "", FALSE, <<FALSE>>, <<spLow>>),
     Template("", "KPN B.V.", TRUE, <<TRUE, FALSE>>, <<spHigh>>),
     Template("", "KPN B.V.", TRUE, <<>>, <<>>),
     Template("", "KPN B.V.", FALSE, <<FALSE>>, <<spLowNamed>>),
     Template("", "KPN B.V.", FALSE, <<FALSE>>, <<spBad, spHalf>>),
     [Template("", "KPN B.V.", FALSE, <<FALSE>>, <<>>) EXCEPT !.name_has_hint = TRUE],
     [Template("", "", FALSE, <<TRUE>>, <<spHalf>>) EXCEPT !.alias_in_hint = TRUE],
     [Template("", "", FALSE, <<TRUE>>, <<>>) EXCEPT !.hint_in_alias = TRUE]}

\* templates handed to match_supplier on their own: the pool, and templates
\* whose supplier pattern finds the supplier name below the confidence the
\* text itself already gave
spNamed == SupplierPattern(FieldPattern("keyword", "text", 70, S_text), TRUE, 0)
spAliased == SupplierPattern(FieldPattern("keyword", "text", 60, S_text), FALSE, 1)
SupplierTemplates ==
    TemplatePool \cup
    {Template("t1", "KPN B.V.", TRUE, <<>>, <<spNamed>>),
     Template("t1", "KPN B.V.", FALSE, <<TRUE>>, <<spNamed>>),
     Template("t1", "KPN B.V.", FALSE, <<FALSE>>, <<spAliased, spNamed>>),
     Template("t1", "KPN B.V.", TRUE, <<TRUE>>, <<spLow, spHalf>>),
     Template("t1", "KPN B.V.", FALSE, <<>>, <<spNamed, spHigh>>)}

TemplateId(i) == CASE i = 1 -> "t1" [] i = 2 -> "t2" [] i = 3 -> "t3" [] OTHER -> "t4"

GenericTemplate == Template("generic_nl", "", FALSE, <<>>, <<>>)

\* catalogs: up to MaxTemplates supplier templates, with or without generic_nl
Catalogs ==
    {[i \in 1..Len(ts) |-> [ts[i] EXCEPT !.template_id = TemplateId(i)]] \o g :
        ts \in SeqsUpTo(TemplatePool, MaxTemplates), g \in {<<>>, <<GenericTemplate>>}}
\* number texts handed to _parse_numeric_value: every text of up to MaxLen
\* characters over two digits and the two separators, and longer examples
S_1_234_56_eu == <<"1", ".", "2", "3", "4", ",", "5", "6">>
S_1234_56 == <<"1", "2", "3", "4", ",", "5", "6">>
S_1_234_56_us == <<"1", ",", "2", "3", "4", ".", "5", "6">>
S_1_234_567_89 == <<"1", ".", "2", "3", "4", ".", "5", "6", "7", ",", "8", "9">>
NumberTexts ==
    SeqsUpTo({"1", "5", ",", "."}, MaxLen)
        \cup {S_1_234_56_eu, S_1234_56, S_1_234_56_us, S_1_234_567_89, S_E_121_00, S_E_121, S_text}

\* -------------------------------------------------------- batch conversion
\* api/conversion.py.  An uploaded file as batch_convert and process_conversion
\* see it: whether its name ends in .pdf, whether it can be read and stored,
\* whether PDFExtractor.extract can open it, and what apply_template is given
\* for it (the selected template on the file's text, its tables).
UploadFile(is_pdf, uploads, readable, extraction) ==
    [is_pdf |-> is_pdf, uploads |-> uploads, readable |-> readable, extraction |-> extraction]

FilePool ==
    {UploadFile(TRUE, TRUE, TRUE,
        [template |-> ExtractionTemplate(<<AmountRule("total_amount", S_121_00)>>, <<>>),
         tables |-> <<>>, text_items |-> <<>>]),
     UploadFile(TRUE, TRUE, TRUE, NoInput),
     UploadFile(TRUE, TRUE, FALSE, NoInput),
     UploadFile(FALSE, TRUE, TRUE, NoInput),
     UploadFile(TRUE, FALSE, TRUE, NoInput)}

BatchLimit == 10

NoResult == [some |-> FALSE, v |-> [data |-> ExtractedInvoiceData, ubl_xml |-> UBLInvoice]]

\* ConversionJob(job_id, status="pending", ...).  stored: the job is in
\* conversion_jobs (del conversion_jobs[job_id] ends it); history lists the
\* values assigned to status, in order.
ConversionJob(job_id) ==
    [job_id |-> job_id, status |-> "pending", result |-> NoResult, error |-> "None",
     stored |-> TRUE, history |-> <<"pending">>]

\* job.status = status
SetStatus(job, status) == [job EXCEPT !.status = status, !.history = Append(@, status)]

\* background_tasks.add_task(process_conversion, job_id, tmp_file_path, template_id, ...)
Task(job_id, pdf, template_id) == [job_id |-> job_id, pdf |-> pdf, template_id |-> template_id]

\* the loop over files of batch_convert (lines 436-476); acc.raised when an
\* exception left the loop
RECURSIVE BatchLoop(_, _, _)
BatchLoop(files, template_id, acc) ==
    IF files = <<>> \/ acc.raised THEN acc
    ELSE LET file == Head(files)
             job_id == Len(acc.jobs) + 1
         IN IF ~file.is_pdf THEN BatchLoop(Tail(files), template_id, acc)
            ELSE IF ~file.uploads
            THEN [acc EXCEPT !.raised = TRUE, !.job_ids = Append(acc.job_ids, job_id)]
            ELSE BatchLoop(Tail(files), template_id,
                    [jobs |-> Append(acc.jobs, ConversionJob(job_id)),
                     tasks |-> Append(acc.tasks, Task(job_id, file, template_id)),
                     job_ids |-> Append(acc.job_ids, job_id),
                     raised |-> FALSE])

\* batch_convert: the job store, the tasks handed to the response and the
\* response.  Only a response the handler returns carries its background
\* tasks; an HTTPException carries none.
BatchConvert(jobs, files, template_id) ==
    IF Len(files) > BatchLimit
    THEN [jobs |-> jobs, tasks |-> <<>>, response |-> "400"]
    ELSE Bind(BatchLoop(files, template_id,
                        [jobs |-> jobs, tasks |-> <<>>, job_ids |-> <<>>, raised |-> FALSE]),
              LAMBDA r : [jobs |-> r.jobs,
                          tasks |-> IF r.raised THEN <<>> ELSE r.tasks,
                          response |-> IF r.raised THEN "500" ELSE "200"])

MaxUploads == 2

\* the temporary file upload_and_convert and batch_convert write for a job
\* (tempfile.NamedTemporaryFile(delete=False)): whether it is on disk, and
\* whether the background task that was given its path has run
TmpFile == [exists |-> TRUE, task_ran |-> FALSE]

\* the temporary files after a handler extended the job store to jobs
Written(files, jobs) ==
    [k \in 1..Len(jobs) |-> IF k <= Len(files) THEN files[k] ELSE TmpFile]

\* POST /upload (upload_and_convert): the job store, the task added to the
\* response and the response
UploadAndConvert(jobs, file, template_id) ==
    IF ~file.is_pdf THEN [jobs |-> jobs, tasks |-> <<>>, response |-> "400"]
    ELSE IF ~file.uploads THEN [jobs |-> jobs, tasks |-> <<>>, response |-> "500"]
    ELSE [jobs |-> Append(jobs, ConversionJob(Len(jobs) + 1)),
          tasks |-> <<Task(Len(jobs) + 1, file, template_id)>>,
          response |-> "200"]

\* conversion_jobs.get(job_id) / job_id in conversion_jobs
InStore(jobs, job_id) == job_id \in 1..Len(jobs) /\ jobs[job_id].stored

\* DELETE /jobs/{job_id} (delete_conversion_job)
DeleteConversionJob(jobs, job_id) ==
    IF ~InStore(jobs, job_id) THEN [jobs |-> jobs, response |-> "404"]
    ELSE [jobs |-> [jobs EXCEPT ![job_id].stored = FALSE], response |-> "200"]

\* GET /jobs/{job_id}/download (download_ubl_xml): the status code, and the
\* XML that a 200 carries
DownloadUblXml(jobs, job_id) ==
    IF ~InStore(jobs, job_id) THEN [status_code |-> "404", content |-> UBLInvoice]
    ELSE IF jobs[job_id].status # "completed" THEN [status_code |-> "400", content |-> UBLInvoice]
    ELSE IF ~jobs[job_id].result.some THEN [status_code |-> "404", content |-> UBLInvoice]
    ELSE [status_code |-> "200", content |-> jobs[job_id].result.v.ubl_xml]

\* the finally clause of process_conversion: Path(pdf_path).unlink(missing_ok=True)
Unlink(files, job_id) == [files EXCEPT ![job_id].exists = FALSE]

\* a variant of the try block that stores a result before the template is
\* looked up
ConversionTryEarlyResult(job, task) ==
    IF ~task.pdf.readable
    THEN [job |-> SetStatus(job, "processing"), raised |-> TRUE]
    ELSE IF task.template_id = "missing"
    THEN [job |-> [SetStatus(job, "processing") EXCEPT
                     !.result = Some([data |-> ExtractedInvoiceData, ubl_xml |-> UBLInvoice])],
          raised |-> TRUE]
    ELSE Bind(ApplyTemplate(task.pdf.extraction.template, task.pdf.extraction.tables,
                            task.pdf.extraction.text_items),
              LAMBDA r :
                 IF r.raised
                 THEN [job |-> SetStatus(job, "processing"), raised |-> TRUE]
                 ELSE [job |-> [SetStatus(SetStatus(job, "processing"), "completed") EXCEPT
                          !.result = Some([data |-> r.data,
                                           ubl_xml |-> ValidateTotals(CalculateTotals(AddLines(r.data)),
                                                                      r.data)])],
                       raised |-> FALSE])

\* the try block of process_conversion (lines 199-271): the job as it is left,
\* raised when an exception leaves the block
ConversionTry(job, task) ==
    IF ~task.pdf.readable
    THEN [job |-> SetStatus(job, "processing"), raised |-> TRUE]
    ELSE IF task.template_id = "missing"
    THEN [job |-> SetStatus(job, "processing"), raised |-> TRUE]
    ELSE Bind(ApplyTemplate(task.pdf.extraction.template, task.pdf.extraction.tables,
                            task.pdf.extraction.text_items),
              LAMBDA r :
                 IF r.raised
                 THEN [job |-> SetStatus(job, "processing"), raised |-> TRUE]
                 ELSE [job |-> [SetStatus(SetStatus(job, "processing"), "completed") EXCEPT
                          !.result = Some([data |-> r.data,
                                           ubl_xml |-> ValidateTotals(CalculateTotals(AddLines(r.data)),
                                                                      r.data)])],
                       raised |-> FALSE])

\* a variant of process_conversion without its except clause: the exception
\* leaves the task, and the tasks behind it are not run
ProcessConversionUncaught(jobs, tasks) ==
    LET task == Head(tasks)
    IN IF ~InStore(jobs, task.job_id)
       THEN [jobs |-> jobs, tasks |-> Tail(tasks), found |-> FALSE]
       ELSE Bind(ConversionTry(jobs[task.job_id], task), LAMBDA t :
               [jobs |-> [jobs EXCEPT ![task.job_id] = t.job],
                tasks |-> IF t.raised THEN <<>> ELSE Tail(tasks), found |-> TRUE])

\* process_conversion run as the first of the background tasks: job store and
\* remaining tasks afterwards
ProcessConversion(jobs, tasks) ==
    LET task == Head(tasks)
    IN IF ~InStore(jobs, task.job_id)
       THEN [jobs |-> jobs, tasks |-> Tail(tasks), found |-> FALSE]
       ELSE Bind(ConversionTry(jobs[task.job_id], task), LAMBDA t :
               [jobs |-> [jobs EXCEPT ![task.job_id] =
                            IF t.raised
                            THEN [SetStatus(t.job, "failed") EXCEPT !.error = "str(e)"]
                            ELSE t.job],
                tasks |-> Tail(tasks), found |-> TRUE])

\* ----------------------------------------------------------- template usage
\* templates/template_models.py.  success_rate is a float; it is kept here as
\* the ratio it stands for, in lowest terms.
MaxCalls == 3

RECURSIVE Gcd(_, _)
Gcd(a, b) == IF b = 0 THEN a ELSE Gcd(b, a % b)

Ratio(num, den) ==
    IF num = 0 THEN [num |-> 0, den |-> 1]
    ELSE [num |-> num \div Gcd(num, den), den |-> den \div Gcd(num, den)]

\* Template(): usage_count = 0, success_rate = 0.0
TemplateUsage == [usage_count |-> 0, success_rate |-> Ratio(0, 1)]

\* a variant of update_success_rate that adds the new outcome to the rate
\* itself
UpdateSuccessRateUnweighted(template, success) ==
    LET usage_count == template.usage_count + 1
        rate == template.success_rate
    IN [usage_count |-> usage_count,
        success_rate |-> IF success THEN Ratio(rate.num + rate.den, rate.den * usage_count)
                                    ELSE Ratio(rate.num, rate.den * usage_count)]

\* Template.update_success_rate(success)
UpdateSuccessRate(template, success) ==
    LET usage_count == template.usage_count + 1
        current_successes == Ratio(template.success_rate.num * (usage_count - 1),
                                   template.success_rate.den)
        new_successes == Ratio(current_successes.num + current_successes.den,
                               current_successes.den)
    IN [usage_count |-> usage_count,
        success_rate |-> IF success
                         THEN Ratio(new_successes.num, new_successes.den * usage_count)
                         ELSE Ratio(current_successes.num, current_successes.den * usage_count)]

\* ------------------------------------------------- template serialization
\* templates/template_models.py.  The dictionary to_dict writes for a pattern
\* of an extraction rule: pattern (here what re reports for the expression:
\* long, compiles, found, group, early), method, field_type,
\* confidence_threshold, validation_pattern and priority; case_sensitive, name
\* and description are written too and play no part here.
PatternToDict(p) ==
    [pattern |-> [long |-> p.long, compiles |-> p.compiles, found |-> p.found,
                  group |-> p.group, early |-> p.early],
     method |-> p.method, field_type |-> p.field_type,
     confidence_threshold |-> p.confidence_threshold,
     validation_pattern |-> p.validation, priority |-> p.priority]

\* FieldPattern(...) of from_dict: the keys of the dictionary, the dataclass
\* defaults for every other field
PatternFromDict(p_data) ==
    [FieldPattern(p_data.method, p_data.field_type, p_data.confidence_threshold,
                  p_data.pattern.group) EXCEPT
        !.long = p_data.pattern.long, !.compiles = p_data.pattern.compiles,
        !.found = p_data.pattern.found, !.early = p_data.pattern.early,
        !.validation = p_data.validation_pattern, !.priority = p_data.priority]

\* Template.to_dict: the extraction rules with field_name, field_type,
\* patterns, min_confidence and default_value, the table rules with table_name
\* and header_patterns
ToDict(template) ==
    [extraction_rules |->
        [i \in 1..Len(template.extraction_rules) |->
            LET r == template.extraction_rules[i]
            IN [field_name |-> r.field_name, field_type |-> r.field_type,
                patterns |-> [k \in 1..Len(r.patterns) |-> PatternToDict(r.patterns[k])],
                min_confidence |-> r.min_confidence, default_value |-> r.default_value]],
     table_rules |->
        [i \in 1..Len(template.table_rules) |->
            [table_name |-> template.table_rules[i].table_name,
             header_patterns |-> template.table_rules[i].header]]]

\* Template.from_dict
FromDict(data) ==
    [extraction_rules |->
        [i \in 1..Len(data.extraction_rules) |->
            LET r_data == data.extraction_rules[i]
            IN [field_name |-> r_data.field_name, field_type |-> r_data.field_type,
                patterns |-> [k \in 1..Len(r_data.patterns) |-> PatternFromDict(r_data.patterns[k])],
                fallback_patterns |-> <<>>,
                min_confidence |-> r_data.min_confidence,
                default_value |-> r_data.default_value]],
     table_rules |->
        [i \in 1..Len(data.table_rules) |->
            [table_name |-> data.table_rules[i].table_name,
             header |-> data.table_rules[i].header_patterns]]]

\* ------------------------------------------------------- template rules
\* templates/template_models.py, api/templates.py.  The rules of a template are
\* ExtractionRules; the patterns of an added rule play no part and are left empty.

\* FieldType(value): the enumeration's values
FieldTypes == {"text", "number", "date", "amount", "percentage", "vat_number", "iban", "email", "phone"}

\* Template.add_field_rule: the new rule is appended to extraction_rules
AddFieldRule(extraction_rules, field_name, field_type) ==
    Append(extraction_rules, ExtractionRule(field_name, field_type, <<>>))

\* the endpoint add_field_rule: 404 for an unknown template, 400 for a field
\* type outside the enumeration, else the rule is added and the template saved
PostFieldRule(manager, template_id, field_name, field_type) ==
    IF template_id \notin DOMAIN manager THEN [templates |-> manager, status |-> "404"]
    ELSE IF field_type \notin FieldTypes THEN [templates |-> manager, status |-> "400"]
    ELSE [templates |-> [manager EXCEPT ![template_id] = AddFieldRule(@, field_name, field_type)],
          status |-> "200"]

\* the manager's templates after create_default_templates and one
\* create_template: generic_nl with its five rules, custom_nl with none
DefaultRules ==
    <<ExtractionRule("invoice_number", "text", <<>>), ExtractionRule("invoice_date", "date", <<>>),
      ExtractionRule("total_amount", "amount", <<>>), ExtractionRule("supplier_vat_number", "vat_number", <<>>),
      ExtractionRule("supplier_name", "text", <<>>)>>
ManagerTemplates == [id \in {"generic_nl", "custom_nl"} |-> IF id = "generic_nl" THEN DefaultRules ELSE <<>>]
RuleFieldNames == {"total_amount", "vat_amount"}

\* ----------------------------------------------------------- state machine
\* The calls of one conversion (cli.py:81-99): find_best_template on a
\* catalog, apply_template with a template, export_to_ubl on the record of
\* apply_template or on a record no template produced.  apply_template reads
\* nothing find_best_template leaves behind but the template it is given, and
\* the model draws that template freely, so each call starts from "idle" (or "usage").
VARIABLES
    pc,          \* "idle" | "batch" | "upload" | "usage" | "returned" | "rules" | "selected" | "extracted" | "loaded" | "lines" | "totals" | "done" | "failed"
    catalog,     \* TemplateManager.templates as seen on the text
    supplier_hint,  \* whether find_best_template was given a hint
    selection,   \* what find_best_template returned
    input,       \* arguments of apply_template
    results,     \* what _extract_field returned, per extraction rule
    data,        \* the ExtractedInvoiceData
    invoice,     \* the UBLInvoice under assembly
    error,       \* the exception that left the call, "none" when none did
    conversion_jobs,  \* api/conversion.py conversion_jobs, by job id
    tasks,       \* the background tasks not yet run
    tmp_files,   \* the temporary file of each job, by job id
    response,    \* status code of batch_convert, "none" before it answered
    call,        \* the last call of a function of the engine: op, args, ret
    templates,   \* TemplateManager.templates: the extraction rules by template id
    usage        \* usage_count and success_rate of the template in use, and the
                 \* success arguments of the update_success_rate calls so far

conversion_vars == <<catalog, supplier_hint, selection, input, results, data, invoice, error>>
batch_vars == <<conversion_jobs, tasks, tmp_files, response>>
vars == <<pc, catalog, supplier_hint, selection, input, results, data, invoice, error,
          conversion_jobs, tasks, tmp_files, response, call, templates, usage>>

NoCall == [op |-> "none"]

NoSelection == [template |-> "None", best_score |-> 0, candidates |-> <<>>]

Init ==
    /\ pc = "idle"
    /\ catalog = <<>>
    /\ supplier_hint = FALSE
    /\ selection = NoSelection
    /\ input = NoInput
    /\ results = <<>>
    /\ data = ExtractedInvoiceData
    /\ invoice = UBLInvoice
    /\ error = "none"
    /\ conversion_jobs = <<>>
    /\ tasks = <<>>
    /\ tmp_files = <<>>
    /\ response = "none"
    /\ call = NoCall
    /\ templates = ManagerTemplates
    /\ usage = [template |-> TemplateUsage, calls |-> <<>>]

\* manager.find_best_template(raw_text, supplier)
FindBest ==
    /\ pc \in {"idle", "usage"}
    /\ \E c \in Catalogs, h \in BOOLEAN :
        /\ catalog' = c
        /\ supplier_hint' = h
        /\ selection' = FindBestTemplate(c, h)
    /\ pc' = "selected"
    /\ UNCHANGED <<input, results, data, invoice, error>>
    /\ UNCHANGED <<batch_vars, call, templates, usage>>

\* a variant of apply_template that takes the rows out of the caller's tables
LeftByConsuming(i) == [i EXCEPT !.tables = <<>>]

\* The arguments as apply_template leaves them for the caller.  The template
\* and the tables are only read: sorted() copies the pattern list,
\* extract_tables builds new headers and rows, the record is a new
\* ExtractedInvoiceData whose dict and lists come from default_factory, and
\* the engine keeps nothing between calls.
LeftBy(i) == i

\* engine.apply_template(template, raw_text, tables)
Extract ==
    /\ pc \in {"idle", "usage"}
    /\ \E i \in IF pc = "idle" THEN ProbeInputs \cup AmountInputs \cup OverInputs
                                 ELSE OverInputs :
        \E r \in {ApplyTemplate(i.template, i.tables, i.text_items)} :
           /\ input' = LeftBy(i)
           /\ results' = r.results
           /\ data' = r.data
           /\ error' = IF r.raised THEN "re.error" ELSE "none"
           /\ pc' = IF r.raised THEN "failed" ELSE "extracted"
    /\ UNCHANGED <<catalog, supplier_hint, selection, invoice>>
    /\ UNCHANGED <<batch_vars, call, templates, usage>>

\* a second engine.apply_template on the same template, text and tables
ExtractAgain ==
    /\ pc = "extracted"
    /\ \E r \in {ApplyTemplate(input.template, input.tables, input.text_items)} :
          call' = [op |-> "apply_template", ret |-> r, input |-> LeftBy(input)]
    /\ pc' = "returned"
    /\ UNCHANGED <<conversion_vars, batch_vars, templates, usage>>

\* exporter.export_to_ubl(extracted_data) on the extractor's own record
Load ==
    /\ pc = "idle"
    /\ \E d \in Records : data' = d
    /\ pc' = "loaded"
    /\ UNCHANGED <<catalog, supplier_hint, selection, input, results, invoice, error>>
    /\ UNCHANGED <<batch_vars, call, templates, usage>>

\* _create_ubl_invoice up to line 174
AddLinesStep ==
    /\ pc \in {"extracted", "loaded"}
    /\ invoice' = AddLines(data)
    /\ pc' = "lines"
    /\ UNCHANGED <<catalog, supplier_hint, selection, input, results, data, error>>
    /\ UNCHANGED <<batch_vars, call, templates, usage>>

\* invoice.calculate_totals() (line 177)
CalculateTotalsStep ==
    /\ pc = "lines"
    /\ invoice' = CalculateTotals(invoice)
    /\ pc' = "totals"
    /\ UNCHANGED <<catalog, supplier_hint, selection, input, results, data, error>>
    /\ UNCHANGED <<batch_vars, call, templates, usage>>

\* self._validate_totals(invoice, data) and the return (lines 180-182)
ValidateTotalsStep ==
    /\ pc = "totals"
    /\ invoice' = ValidateTotals(invoice, data)
    /\ pc' = "done"
    /\ UNCHANGED <<catalog, supplier_hint, selection, input, results, data, error>>
    /\ UNCHANGED <<batch_vars, call, templates, usage>>

\* template.update_success_rate(success), before a conversion
UpdateSuccessRateStep ==
    /\ pc \in {"idle", "usage"} /\ Len(usage.calls) < MaxCalls
    /\ \E success \in BOOLEAN :
          usage' = [template |-> UpdateSuccessRate(usage.template, success),
                    calls |-> Append(usage.calls, success)]
    /\ pc' = "usage"
    /\ UNCHANGED <<conversion_vars, batch_vars, call, templates>>

\* POST /batch with up to MaxFiles files
BatchConvertStep ==
    /\ pc = "idle"
    /\ \E files \in SeqsUpTo(FilePool, MaxFiles), template_id \in {"None", "missing"} :
        \E r \in {BatchConvert(conversion_jobs, files, template_id)} :
           /\ conversion_jobs' = r.jobs
           /\ tasks' = r.tasks
           /\ tmp_files' = Written(tmp_files, r.jobs)
           /\ response' = r.response
    /\ pc' = "batch"
    /\ UNCHANGED <<conversion_vars, call, templates, usage>>

\* POST /upload with one file; the task it adds runs after the tasks of the
\* responses before it
UploadStep ==
    /\ pc \in {"idle", "upload"} /\ Len(conversion_jobs) < MaxUploads
    /\ \E file \in FilePool :
        \E r \in {UploadAndConvert(conversion_jobs, file, "None")} :
           /\ conversion_jobs' = r.jobs
           /\ tasks' = tasks \o r.tasks
           /\ tmp_files' = Written(tmp_files, r.jobs)
           /\ response' = r.response
    /\ pc' = "upload"
    /\ UNCHANGED <<conversion_vars, call, templates, usage>>

\* DELETE /jobs/{job_id}, between any two steps of the uploads
DeleteJobStep ==
    /\ pc = "upload"
    /\ \E job_id \in 1..MaxUploads :
        \E r \in {DeleteConversionJob(conversion_jobs, job_id)} :
           /\ conversion_jobs' = r.jobs
           /\ response' = r.response
    /\ UNCHANGED <<pc, tasks, tmp_files>>
    /\ UNCHANGED <<conversion_vars, call, templates, usage>>

\* GET /jobs/{job_id}/download, between any two steps of the uploads
DownloadStep ==
    /\ pc = "upload"
    /\ \E job_id \in 1..MaxUploads :
        \E r \in {DownloadUblXml(conversion_jobs, job_id)} :
           call' = [op |-> "download_ubl_xml", job_id |-> job_id,
                    status_code |-> r.status_code, content |-> r.content]
    /\ UNCHANGED <<pc, batch_vars>>
    /\ UNCHANGED <<conversion_vars, templates, usage>>

\* the next background task: process_conversion.  Nothing is awaited inside
\* it, so it runs as one step; when the job is no longer in the store it
\* returns before its try block, and the finally clause is not reached.
ProcessConversionStep ==
    /\ pc \in {"batch", "upload"} /\ tasks # <<>>
    /\ \E r \in {ProcessConversion(conversion_jobs, tasks)} :
           /\ conversion_jobs' = r.jobs
           /\ tasks' = r.tasks
           /\ tmp_files' = [(IF r.found THEN Unlink(tmp_files, Head(tasks).job_id)
                                       ELSE tmp_files)
                              EXCEPT ![Head(tasks).job_id].task_ran = TRUE]
    /\ UNCHANGED <<pc, response>>
    /\ UNCHANGED <<conversion_vars, call, templates, usage>>

\* engine._parse_numeric_value(value_str, remove_currency)
ParseNumericStep ==
    /\ pc = "idle"
    /\ \E value_str \in NumberTexts, remove_currency \in BOOLEAN :
          call' = [op |-> "_parse_numeric_value", value_str |-> value_str,
                   remove_currency |-> remove_currency,
                   ret |-> ParseNumericValue(value_str, remove_currency)]
    /\ pc' = "returned"
    /\ UNCHANGED <<conversion_vars, batch_vars, templates, usage>>

\* one call of TemplateEngine._post_process_data(data, template) on a record
\* without line items
PostProcessStep ==
    /\ pc = "idle"
    /\ \E d \in {r \in Records : r.line_items = <<>>} :
          call' = [op |-> "_post_process_data", data |-> d, ret |-> PostProcessData(d)]
    /\ pc' = "returned"
    /\ UNCHANGED <<conversion_vars, batch_vars, templates, usage>>

\* save_template and _load_templates: Template.from_dict(template.to_dict())
SaveReloadStep ==
    /\ pc = "idle"
    /\ \E i \in ProbeInputs \cup AmountInputs :
          call' = [op |-> "from_dict", template |-> i.template,
                   ret |-> FromDict(ToDict(i.template))]
    /\ pc' = "returned"
    /\ UNCHANGED <<conversion_vars, batch_vars, templates, usage>>

\* one call of TemplateEngine._apply_pattern(pattern, text)
ApplyPatternStep ==
    /\ pc = "idle"
    /\ \E pattern \in PatternPool \cup {pOver, pUnder} :
        \E r \in {ApplyPattern(pattern)} :
          /\ call' = [op |-> "_apply_pattern", pattern |-> pattern, ret |-> r]
          /\ pc' = IF r.raised THEN "failed" ELSE "returned"
    /\ UNCHANGED <<conversion_vars, batch_vars, templates, usage>>

\* one call of TemplateEngine.match_supplier(template, raw_text)
MatchSupplierStep ==
    /\ pc = "idle"
    /\ \E template \in SupplierTemplates :
          call' = [op |-> "match_supplier", template |-> template,
                   ret |-> MatchSupplier(template)]
    /\ pc' = "returned"
    /\ UNCHANGED <<conversion_vars, batch_vars, templates, usage>>

\* template.add_field_rule(field_name, field_type, patterns) on a template
\* of the manager, as the template scripts call it
AddFieldRuleStep ==
    /\ pc \in {"idle", "rules"}
    /\ \E template_id \in DOMAIN templates, field_name \in RuleFieldNames :
          /\ Len(templates[template_id]) < Len(ManagerTemplates[template_id]) + MaxRules
          /\ templates' = [templates EXCEPT
                              ![template_id] = AddFieldRule(@, field_name, "amount")]
          /\ call' = [op |-> "add_field_rule", template_id |-> template_id,
                      field_name |-> field_name]
    /\ pc' = "rules"
    /\ UNCHANGED <<conversion_vars, batch_vars, usage>>

\* POST /{template_id}/rules
PostFieldRuleStep ==
    /\ pc \in {"idle", "rules"}
    /\ \E template_id \in DOMAIN templates \cup {"missing"}, field_name \in RuleFieldNames,
          field_type \in {"amount", "bogus"} :
          /\ template_id \in DOMAIN templates =>
                Len(templates[template_id]) < Len(ManagerTemplates[template_id]) + MaxRules
          /\ \E r \in {PostFieldRule(templates, template_id, field_name, field_type)} :
                /\ templates' = r.templates
                /\ call' = [op |-> "POST /{template_id}/rules", template_id |-> template_id,
                            field_name |-> field_name, status |-> r.status]
    /\ pc' = "rules"
    /\ UNCHANGED <<conversion_vars, batch_vars, usage>>

Next ==
    \/ FindBest
    \/ Extract
    \/ ExtractAgain
    \/ Load
    \/ AddLinesStep
    \/ CalculateTotalsStep
    \/ ValidateTotalsStep
    \/ BatchConvertStep
    \/ UploadStep
    \/ DeleteJobStep
    \/ DownloadStep
    \/ ProcessConversionStep
    \/ ParseNumericStep
    \/ MatchSupplierStep
    \/ ApplyPatternStep
    \/ PostProcessStep
    \/ SaveReloadStep
    \/ AddFieldRuleStep
    \/ PostFieldRuleStep
    \/ UpdateSuccessRateStep

Spec == Init /\ [][Next]_vars
\* ------------------------------------------------------------------ claims
Known(f) == data[f].some
KnownCount == Cardinality({f \in AmountFields : Known(f)})

\* C1: after _post_process_data, a record of which at least two of net, tax
\* and total are known holds all three, with |net + tax - total| <= 0.02.
C1_Reconciled ==
    (pc = "extracted" /\ KnownCount >= 2) =>
        /\ KnownCount = 3
        /\ Abs(data.net_amount.v + data.vat_amount.v - data.total_amount.v) <= 2

\* what the document's own lines and tax subtotals add up to
lmt == invoice.legal_monetary_total
SubtotalTax == IF invoice.tax_total = <<>> THEN 0 ELSE SumTaxAmount(invoice.tax_total[1].tax_subtotals)
Computed == lmt.line_extension_amount + SubtotalTax
Difference == Abs(Computed - Micro(data.total_amount.v))
\* the condition under which _validate_totals overrides the computed total
Override == Truthy(data.total_amount) /\ Computed # 0 /\ Difference > Micro(1) /\ Difference <= Micro(100)

\* C2 as stated: payable_amount and tax_inclusive_amount equal
\* line_extension_amount plus the tax subtotals, after calculate_totals and
\* still after _validate_totals.
C2_TotalsAreSums ==
    (pc \in {"totals", "done"} /\ lmt.some) =>
        /\ lmt.payable_amount = Computed
        /\ lmt.tax_inclusive_amount = Computed

\* C2 amended: the equality holds right after calculate_totals; after
\* _validate_totals it holds unless an extracted total differs from the sum by
\* more than 0.01 and at most 1.00, and then both amounts are that total.
C2_TotalsAreSumsUnlessOverridden ==
    /\ (pc = "totals" /\ lmt.some) =>
          lmt.payable_amount = Computed /\ lmt.tax_inclusive_amount = Computed
    /\ (pc = "done" /\ lmt.some) =>
          IF Override
          THEN lmt.payable_amount = Micro(data.total_amount.v)
               /\ lmt.tax_inclusive_amount = Micro(data.total_amount.v)
          ELSE lmt.payable_amount = Computed /\ lmt.tax_inclusive_amount = Computed

\* a document whose payable amount was overridden and is no longer the sum
C2_Witness == pc = "done" /\ lmt.some /\ Override /\ lmt.payable_amount # Computed

\* C3 as stated: with an extracted total and a computed payable amount, a
\* difference of at most 1.00 ends with both amounts equal to the extracted
\* total, a larger one with the computed value.
C3_AdjustWithinOne ==
    (pc = "done" /\ lmt.some /\ Truthy(data.total_amount) /\ Computed # 0) =>
        IF Difference <= Micro(100)
        THEN lmt.payable_amount = Micro(data.total_amount.v)
             /\ lmt.tax_inclusive_amount = Micro(data.total_amount.v)
        ELSE lmt.payable_amount = Computed /\ lmt.tax_inclusive_amount = Computed

\* C3 amended: a difference above 0.01 and of at most 1.00 ends with both
\* amounts equal to the extracted total; a difference of at most 0.01 or above
\* 1.00 leaves the computed value.
C3_AdjustBetweenCentAndOne ==
    (pc = "done" /\ lmt.some /\ Truthy(data.total_amount) /\ Computed # 0) =>
        IF Difference > Micro(1) /\ Difference <= Micro(100)
        THEN lmt.payable_amount = Micro(data.total_amount.v)
             /\ lmt.tax_inclusive_amount = Micro(data.total_amount.v)
        ELSE lmt.payable_amount = Computed /\ lmt.tax_inclusive_amount = Computed

\* a total one cent off the computed one is left alone
C3_Witness ==
    /\ pc = "done" /\ lmt.some /\ Truthy(data.total_amount)
    /\ Difference > 0 /\ Difference <= Micro(1)
    /\ lmt.payable_amount = Computed

\* C4: payable_amount equals tax_inclusive_amount and tax_exclusive_amount
\* equals line_extension_amount, after calculate_totals and after
\* _validate_totals.
C4_PayableIsTaxInclusive ==
    (pc \in {"totals", "done"} /\ lmt.some) =>
        /\ lmt.payable_amount = lmt.tax_inclusive_amount
        /\ lmt.tax_exclusive_amount = lmt.line_extension_amount

\* a document of one summary line whose totals were adjusted to the extracted total
C4_Witness ==
    /\ pc = "done" /\ lmt.some /\ data.line_items = <<>>
    /\ lmt.payable_amount = Micro(data.total_amount.v)
    /\ lmt.payable_amount # Computed

Rules == input.template.extraction_rules
\* pattern k of rule i yields a value with confidence > 0.9
YieldsHigh(i, k) ==
    LET r == ApplyPattern(Rules[i].patterns[k])
    IN r.value.kind # "none" /\ r.confidence > 90

\* C5: the patterns of a rule are evaluated in descending priority order, none
\* is skipped but after a pattern that yields a confidence > 0.9, and nothing
\* is evaluated after such a pattern.
C5_ShortCircuit ==
    \A i \in 1..Len(results) :
        LET ev == results[i].evaluated
            ps == Rules[i].patterns
            unevaluated == (1..Len(ps)) \ {ev[k] : k \in 1..Len(ev)}
        IN /\ \A j, k \in 1..Len(ev) : j < k =>
                 /\ ev[j] # ev[k]
                 /\ ps[ev[j]].priority >= ps[ev[k]].priority
           /\ \A u \in unevaluated :
                 /\ ev # <<>>
                 /\ YieldsHigh(i, ev[Len(ev)])
                 /\ ps[u].priority <= ps[ev[Len(ev)]].priority
           /\ \A k \in 1..Len(ev) : YieldsHigh(i, ev[k]) => k = Len(ev)

\* a later pattern of higher priority is evaluated first, yields a
\* confidence > 0.9, and the other pattern is not evaluated
C5_Witness ==
    /\ pc = "extracted" /\ results # <<>>
    /\ Len(Rules[1].patterns) = 2
    /\ results[1].evaluated = <<2>>
    /\ YieldsHigh(1, 2)

\* the non-generic candidates of the call and their confidences
Candidates == SelectSeq(selection.candidates, LAMBDA t : t.template_id # "generic_nl")
Confidence(t) == MatchSupplier(t).confidence
HasGeneric == \E i \in 1..Len(catalog) : catalog[i].template_id = "generic_nl"

\* C6: find_best_template returns the best-scoring non-generic candidate
\* exactly when that candidate's confidence is >= 0.5, and generic_nl otherwise.
C6_AcceptFromHalf ==
    (pc = "selected" /\ HasGeneric) =>
        IF \E i \in 1..Len(Candidates) : Confidence(Candidates[i]) >= 50
        THEN \E i \in 1..Len(Candidates) :
                /\ selection.template = Candidates[i].template_id
                /\ \A j \in 1..Len(Candidates) : Confidence(Candidates[j]) <= Confidence(Candidates[i])
        ELSE selection.template = "generic_nl"

\* C7: a field whose best candidate, with no default configured, is below the
\* rule's min_confidence is not written by that rule and gets no positive
\* confidence entry; every rule of the template is still processed.
C7_FloorEnforced ==
    pc = "extracted" =>
        /\ Len(results) = Len(Rules)
        /\ \A i \in 1..Len(results) :
              (/\ ~Rules[i].default_value.some
               /\ results[i].value.kind # "none"
               /\ results[i].confidence < Rules[i].min_confidence) =>
                  /\ data.origin[Rules[i].field_name].by # "pattern"
                  /\ ~Truthy(data.confidence_scores[Rules[i].field_name])

\* C8: the confidence entry of every populated amount field is the confidence
\* of the pattern that produced the field's current value, or 0.1 when that
\* value is the rule's default.
C8_ConfidenceOfProducer ==
    pc = "extracted" =>
        \A f \in AmountFields : (data[f].some /\ data.confidence_scores[f].some) =>
            /\ data.origin[f].by \in {"pattern", "default"}
            /\ data.confidence_scores[f] = Some(data.origin[f].confidence)
            /\ data.origin[f].by = "default" => data.origin[f].confidence = 10

\* an expression of the pattern that re rejects
Invalid(p) ==
    /\ p.method = "regex"
    /\ \/ ~p.compiles
       \/ p.cleanup = "invalid"
       \/ p.validation = "invalid"
       \/ \E k \in 1..Len(p.required_context) : p.required_context[k] = "invalid"
       \/ \E k \in 1..Len(p.forbidden_context) : p.forbidden_context[k] = "invalid"

\* C9: a pattern with an invalid expression yields (None, 0) and raises
\* nothing; the loop goes on to the other patterns of the rule (an invalid
\* pattern never ends it) and every rule of the template is processed.
C9_InvalidPatternSkipped ==
    /\ error = "none" /\ pc # "failed"
    /\ pc = "extracted" => Len(results) = Len(Rules)
    /\ \A i \in 1..Len(results) :
          LET ev == results[i].evaluated
              fev == results[i].fallback_evaluated
              ps == Rules[i].patterns
              fps == Rules[i].fallback_patterns
          IN /\ \A k \in 1..Len(ev) : Invalid(ps[ev[k]]) =>
                   /\ ApplyPattern(ps[ev[k]]) = NoMatch
                   /\ k = Len(ev) => Len(ev) = Len(ps)
             /\ \A k \in 1..Len(fev) : Invalid(fps[fev[k]]) =>
                   /\ ApplyPattern(fps[fev[k]]) = NoMatch
                   /\ k = Len(fev) => Len(fev) = Len(fps)

\* an invalid expression is tried first, the next pattern of the rule gives
\* the total and the next rule gives the tax
C9_Witness ==
    /\ pc = "extracted" /\ Len(results) = 2
    /\ Len(results[1].evaluated) = 2
    /\ Invalid(Rules[1].patterns[results[1].evaluated[1]])
    /\ data.total_amount.some /\ data.origin["total_amount"].by = "pattern"
    /\ data.vat_amount.some

\* C10: assembling a record without line items and without a total ends with
\* an error, not with a document.
C10_AssemblyFault ==
    (pc = "done" /\ data.line_items = <<>> /\ ~data.total_amount.some) => error # "none"

Terminal == {"completed", "failed"}
JobIds == {k \in 1..Len(conversion_jobs) : conversion_jobs[k].stored}
Scheduled(k) == \E i \in 1..Len(tasks) : tasks[i].job_id = k

\* C11: in a batch that was accepted, a step of process_conversion changes the
\* job it runs for and no other job; a job that fails then has status failed,
\* an error and no result; and every job that is not yet completed or failed
\* still has its own task waiting, so that it ends completed or failed too.
C11_JobsIndependent ==
    /\ [](response = "200" =>
            \A k \in JobIds : conversion_jobs[k].status \notin Terminal => Scheduled(k))
    /\ [][(pc = "batch" /\ tasks # <<>>) =>
            LET j == Head(tasks).job_id
            IN /\ Len(conversion_jobs') = Len(conversion_jobs)
               /\ \A k \in JobIds \ {j} : conversion_jobs'[k] = conversion_jobs[k]
               /\ conversion_jobs'[j].status \in Terminal
               /\ conversion_jobs'[j].status = "failed" =>
                     /\ conversion_jobs'[j].error # "None"
                     /\ ~conversion_jobs'[j].result.some
               /\ conversion_jobs'[j].status = "completed" =>
                     /\ conversion_jobs'[j].error = "None"
                     /\ conversion_jobs'[j].result.some]_vars

\* the first job of a batch of two failed and the second one completed
C11_Witness ==
    /\ pc = "batch" /\ response = "200" /\ tasks = <<>>
    /\ Len(conversion_jobs) = 2
    /\ conversion_jobs[1].status = "failed"
    /\ conversion_jobs[2].status = "completed"

\* the text of the last _parse_numeric_value call, the amount in cents that an
\* integer part and a fraction of at most two digits stand for
Text == call.value_str
Separators == {",", "."}
Plain(t) == \A i \in 1..Len(t) : t[i] \in Digits \cup Separators
Cents(ip, fp) ==
    DigitsToInt(ip) * 100
        + (IF Len(fp) = 0 THEN 0 ELSE IF Len(fp) = 1 THEN DigitsToInt(fp) * 10 ELSE DigitsToInt(fp))
LastSeparator == Max(RFind(Text, ","), RFind(Text, "."))
Before(other) == Remove(SubSeq(Text, 1, LastSeparator - 1), {other})
After == SubSeq(Text, LastSeparator + 1, Len(Text))

\* C12: of a text with both ',' and '.', the separator that occurs last is the
\* decimal separator and the other one is dropped: the digits before it (the
\* other separator removed) are the integer part and the digits after it the
\* fraction; a text in which the decimal separator occurs twice is no number.
\* "1.234,56", "1234,56" and "1,234.56" each give 1234.56.
C12_LastSeparatorIsDecimal ==
    call.op = "_parse_numeric_value" =>
        /\ (Plain(Text) /\ Contains(Text, ",") /\ Contains(Text, ".")) =>
              LET dec == Text[LastSeparator]
                  ip == Before(CHOOSE c \in Separators : c # dec)
              IN /\ (AllDigits(ip) /\ Len(After) <= 2 /\ Len(ip) + Len(After) > 0)
                        => call.ret = Some(Cents(ip, After))
                 /\ Contains(ip, dec) => call.ret = None
        /\ Text \in {S_1_234_56_eu, S_1234_56, S_1_234_56_us} => call.ret = Some(123456)

\* "1,234.56" was parsed to 1234.56
C12_Witness ==
    call.op = "_parse_numeric_value" /\ Text = S_1_234_56_us /\ call.ret = Some(123456)

CommaOnly == Plain(Text) /\ Contains(Text, ",") /\ ~Contains(Text, ".")
CommaTail == Len(Text) - RFind(Text, ",")
AsDecimal ==
    LET ip == SubSeq(Text, 1, RFind(Text, ",") - 1)
        fp == SubSeq(Text, RFind(Text, ",") + 1, Len(Text))
    IN IF Len(ip) + Len(fp) > 0 THEN Some(Cents(ip, fp)) ELSE None
AsThousands ==
    LET ds == Remove(Text, {","})
    IN IF ds # <<>> THEN Some(DigitsToInt(ds) * 100) ELSE None

\* C13 as stated: of a text with a comma and no period, a single comma
\* followed by exactly two digits is the decimal separator; in every other
\* case the commas are removed.
C13_CommaTwoDigits ==
    (call.op = "_parse_numeric_value" /\ CommaOnly) =>
        call.ret = IF CountOf(Text, ",") = 1 /\ CommaTail = 2 THEN AsDecimal ELSE AsThousands

\* C13 amended: a single comma followed by at most two digits (two, one or
\* none) is the decimal separator; in every other case the commas are removed.
C13_CommaAtMostTwoDigits ==
    (call.op = "_parse_numeric_value" /\ CommaOnly) =>
        call.ret = IF CountOf(Text, ",") = 1 /\ CommaTail <= 2 THEN AsDecimal ELSE AsThousands

\* "1,5" was parsed to 1.50
C13_Witness ==
    call.op = "_parse_numeric_value" /\ Text = <<"1", ",", "5">> /\ call.ret = Some(150)

\* C14: when find_best_template returns a non-generic template, it is one of
\* the candidates and no other non-generic candidate has a strictly higher
\* match_supplier confidence.
C14_NoBetterCandidate ==
    (pc = "selected" /\ selection.template \notin {"generic_nl", "None"}) =>
        \E i \in 1..Len(Candidates) :
            /\ Candidates[i].template_id = selection.template
            /\ Confidence(Candidates[i]) = selection.best_score
            /\ \A j \in 1..Len(Candidates) : Confidence(Candidates[j]) <= Confidence(Candidates[i])

\* the second of two matching candidates has the higher confidence and is returned
C14_Witness ==
    /\ pc = "selected" /\ Len(Candidates) = 2
    /\ selection.template = Candidates[2].template_id
    /\ MatchSupplier(Candidates[1]).match_found
    /\ Confidence(Candidates[1]) < Confidence(Candidates[2])

\* C15: if the template's declared supplier name occurs in the text,
\* match_supplier reports a match with confidence of at least 0.8, whatever
\* aliases and supplier patterns the template has.
C15_NameInTextMatches ==
    (call.op = "match_supplier" /\ call.template.supplier_name # "" /\ call.template.name_in_text) =>
        (call.ret.match_found /\ call.ret.confidence >= 80)

\* the name is in the text of a template that also has aliases and a supplier pattern
C15_Witness ==
    /\ call.op = "match_supplier"
    /\ call.template.supplier_name # "" /\ call.template.name_in_text
    /\ call.template.aliases_in_text # <<>> /\ call.template.supplier_patterns # <<>>
    /\ call.ret.match_found

\* (c) of the selector's confidence: the best confidence of the supplier
\* patterns that found a value, each with its boosts added
BoostedPatterns(template) ==
    {LET sp == template.supplier_patterns[i]
     IN ApplyPattern(sp.pattern).confidence
        + (IF template.supplier_name # "" /\ sp.name_in_value THEN 30 ELSE 0)
        + 20 * sp.aliases_in_value :
        i \in {k \in 1..Len(template.supplier_patterns) :
                   LET v == ApplyPattern(template.supplier_patterns[k].pattern).value
                   IN v.kind = "str" /\ v.str # <<>>}}
MaxOf(S) == IF S = {} THEN 0 ELSE CHOOSE x \in S : \A y \in S : y <= x
StatedConfidence(template) ==
    LET a == IF template.supplier_name # "" /\ template.name_in_text THEN 80 ELSE 0
        b == IF \E i \in 1..Len(template.aliases_in_text) : template.aliases_in_text[i] THEN 70 ELSE 0
        c == MaxOf(BoostedPatterns(template))
    IN Min(100, Max(Max(a, b), c))

\* C20: the confidence match_supplier returns is min(1, max(a, b, c)): a = 0.8
\* for the name in the text, b = 0.7 for an alias in the text, c the best
\* supplier-pattern confidence after its boosts.
C20_ConfidenceIsMaximum ==
    call.op = "match_supplier" => call.ret.confidence = StatedConfidence(call.template)

\* C16: after any sequence of add_field_rule calls, direct or through
\* POST /{template_id}/rules, no two extraction rules of one template have the
\* same field_name.
C16_FieldNamesUnique ==
    \A id \in DOMAIN templates :
        \A i, j \in 1..Len(templates[id]) :
            templates[id][i].field_name = templates[id][j].field_name => i = j

\* C17: every confidence the Pattern Matcher returns, for expression-match and
\* keyword-anchored patterns alike, and every value of the record's
\* confidence map lies in [0, 1].
C17_ConfidenceInUnitInterval ==
    /\ (call.op = "_apply_pattern" /\ ~call.ret.raised) =>
            (0 <= call.ret.confidence /\ call.ret.confidence <= 100)
    /\ pc \in {"extracted", "loaded", "lines", "totals", "done"} =>
            \A f \in DOMAIN data.confidence_scores :
                data.confidence_scores[f].some =>
                    (0 <= data.confidence_scores[f].v /\ data.confidence_scores[f].v <= 100)

LineRates == {invoice.invoice_lines[i].tax_category.percent :
                 i \in {k \in 1..Len(invoice.invoice_lines) : invoice.invoice_lines[k].tax_category.some}}
Subtotals == IF invoice.tax_total = <<>> THEN <<>> ELSE invoice.tax_total[1].tax_subtotals

\* C19: an assembled document has one tax subtotal per distinct tax rate of
\* its lines, and the tax_amount of each subtotal is its taxable_amount times
\* the rate of its own tax category / 100, also when the lines carry different
\* rates.
C19_SubtotalPerRate ==
    (pc \in {"totals", "done"} /\ invoice.invoice_lines # <<>>) =>
        /\ Len(Subtotals) = Cardinality(LineRates)
        /\ \A i \in 1..Len(Subtotals) :
              Subtotals[i].tax_amount
                  = (Subtotals[i].taxable_amount \div 10000) * Subtotals[i].tax_category.percent

\* the rows each 'line_items' table rule of the template yields on the tables
LineItemRules == SelectSeq(input.template.table_rules, LAMBDA r : r.table_name = "line_items")
TableYields == {ExtractTableData(LineItemRules[i], input.tables) : i \in 1..Len(LineItemRules)}

\* C21: the text scan is used if and only if no table rule yielded a line
\* item: when some 'line_items' table rule yields a row, the line items of the
\* record are rows of a table, for any number and order of table rules.
C21_TableRowsKept ==
    (pc = "extracted" /\ input.tables # <<>>) =>
        /\ (\E y \in TableYields : y # <<>>) => data.line_items \in TableYields \ {<<>>}
        /\ (\A y \in TableYields : y = <<>>) => data.line_items = input.text_items

RECURSIVE SumItemTotals(_)
SumItemTotals(items) == IF items = <<>> THEN 0 ELSE Head(items).total_amount + SumItemTotals(Tail(items))

\* C22: when no rule and no summary table gave a total, net and tax are not
\* both present and the record has line items, reconciliation sets the total
\* to the sum of the line items' total amounts.
C22_TotalFromLineItems ==
    (/\ pc = "extracted"
     /\ data.origin["total_amount"].by \notin {"pattern", "default", "summary"}
     /\ ~(Truthy(data.net_amount) /\ Truthy(data.vat_amount))
     /\ data.line_items # <<>>) =>
        data.total_amount = Some(SumItemTotals(data.line_items))

\* C23: post-processing derives the one missing amount from the two present
\* ones, total = net + tax or net = total - tax, also for a tax amount of 0,
\* and leaves the amounts that were present unchanged.
C23_MissingAmountDerived ==
    call.op = "_post_process_data" =>
        LET d == call.data
            r == call.ret
        IN /\ (d.net_amount.some /\ d.vat_amount.some /\ ~d.total_amount.some) =>
                  r.total_amount = Some(d.net_amount.v + d.vat_amount.v)
           /\ (d.total_amount.some /\ d.vat_amount.some /\ ~d.net_amount.some) =>
                  r.net_amount = Some(d.total_amount.v - d.vat_amount.v)
           /\ \A f \in {"total_amount", "vat_amount", "net_amount"} : d[f].some => r[f] = d[f]

\* the templates whose supplier name or some alias contains the hint
ContainingHint == SelectSeq(catalog, LAMBDA t : (t.supplier_name # "" /\ t.name_has_hint) \/ t.hint_in_alias)

\* C24: with a supplier hint, find_best_template scores exactly the templates
\* whose supplier name or some alias contains the hint, if there is any; with
\* no hint, or no such template, it scores the whole catalog.
C24_CandidatesContainHint ==
    pc = "selected" =>
        selection.candidates = IF supplier_hint /\ ContainingHint # <<>> THEN ContainingHint ELSE catalog

\* the confidences of the patterns of a list that were evaluated and found a value
FoundConfidences(patterns, evaluated) ==
    {ApplyPattern(patterns[evaluated[k]]).confidence :
        k \in {n \in 1..Len(evaluated) : ApplyPattern(patterns[evaluated[n]]).value.kind # "none"}}
\* the best confidence the regular patterns of rule i found
RegularBest(i) == MaxOf(FoundConfidences(Rules[i].patterns, results[i].evaluated))
FallbackBest(i) == MaxOf(FoundConfidences(Rules[i].fallback_patterns, results[i].fallback_evaluated))

\* C25: the fallback patterns of a rule are evaluated if and only if the best
\* confidence of the regular patterns is below min_confidence; a fallback
\* result replaces the best only with a strictly higher confidence, so the
\* final confidence is never below the best regular confidence.
C25_FallbackOnlyBelowFloor ==
    pc = "extracted" =>
        \A i \in 1..Len(results) :
            /\ results[i].fallback_evaluated =
                  IF RegularBest(i) < Rules[i].min_confidence
                  THEN Idx(Rules[i].fallback_patterns) ELSE <<>>
            /\ results[i].confidence >= RegularBest(i)
            /\ ~results[i].from_default =>
                  results[i].confidence = Max(RegularBest(i), FallbackBest(i))

\* the regular patterns stay below the floor, the fallback patterns are
\* tried and find a value of lower confidence, and the regular result is kept
C25_Witness ==
    /\ pc = "extracted" /\ results # <<>>
    /\ RegularBest(1) > 0 /\ RegularBest(1) < Rules[1].min_confidence
    /\ results[1].fallback_evaluated # <<>>
    /\ FallbackBest(1) > 0 /\ FallbackBest(1) < RegularBest(1)
    /\ results[1].confidence = RegularBest(1)

\* C26: a record without line items and with a total gives a document with
\* exactly one summary line, and the payable amount computed from that line
\* is within 1.00 of the extracted total, with or without an extracted tax
\* or net amount.
C26_SummaryLineMeetsTotal ==
    (pc \in {"totals", "done"} /\ data.line_items = <<>> /\ Truthy(data.total_amount)) =>
        /\ Len(invoice.invoice_lines) = 1
        /\ Abs(invoice.legal_monetary_total.payable_amount - Micro(data.total_amount.v)) <= Micro(100)

\* C27: Template.from_dict(t.to_dict()) equals t in everything that affects
\* extraction (each pattern's expression, method, threshold, validation,
\* cleanup, context expressions and priority, each rule's fallback patterns
\* and default value), so the reloaded template extracts the same values.
C27_RoundTrip ==
    call.op = "from_dict" =>
        /\ call.ret = call.template
        /\ ApplyTemplate(call.ret, <<>>, <<>>).data = ApplyTemplate(call.template, <<>>, <<>>).data
Lifecycles ==
    {<<"pending">>,
     <<"pending", "processing">>,
     <<"pending", "processing", "completed">>,
     <<"pending", "processing", "failed">>}

\* C28: the values a job's status takes are pending, then processing, then
\* completed or failed, and a job that process_conversion has left is not
\* left at processing; a completed or failed job never changes again; a job
\* has a result only when it is completed and an error only when it is
\* failed; and a download that answered 200 was for a completed job and
\* carried that job's XML.
C28_StatusLifecycle ==
    /\ [](\A k \in 1..Len(conversion_jobs) :
            LET job == conversion_jobs[k]
            IN /\ job.history \in Lifecycles \ {<<"pending", "processing">>}
               /\ job.status = job.history[Len(job.history)]
               /\ job.result.some => job.status = "completed"
               /\ job.error # "None" => job.status = "failed")
    /\ [](call.op = "download_ubl_xml" /\ call.status_code = "200" =>
            /\ conversion_jobs[call.job_id].status = "completed"
            /\ call.content = conversion_jobs[call.job_id].result.v.ubl_xml)
    /\ [][\A k \in 1..Len(conversion_jobs) :
            conversion_jobs[k].status \in Terminal =>
                /\ conversion_jobs'[k].status = conversion_jobs[k].status
                /\ conversion_jobs'[k].result = conversion_jobs[k].result
                /\ conversion_jobs'[k].error = conversion_jobs[k].error]_vars

\* of two uploads the first failed and the second completed, a download of
\* the first was refused before, and the second one's XML was downloaded
C28_Witness ==
    /\ pc = "upload" /\ tasks = <<>> /\ Len(conversion_jobs) = 2
    /\ conversion_jobs[1].history = <<"pending", "processing", "failed">>
    /\ conversion_jobs[1].error # "None"
    /\ conversion_jobs[2].history = <<"pending", "processing", "completed">>
    /\ call.op = "download_ubl_xml" /\ call.job_id = 2 /\ call.status_code = "200"

\* C29: once the background task of an upload has run, the temporary file
\* written at that upload is no longer on disk, whatever the order of the
\* uploads, the tasks and the DELETE requests.  (No other step removes the
\* file, so a file that is left when its task has run stays.)
C29_TempFileRemoved ==
    \A k \in 1..Len(tmp_files) : tmp_files[k].task_ran => ~tmp_files[k].exists

Successes(calls) == Cardinality({i \in 1..Len(calls) : calls[i]})

\* C30: after any sequence of update_success_rate calls on a template that
\* starts at usage_count = 0 and success_rate = 0, usage_count is the number
\* of calls, success_rate is the number of calls with success = true divided
\* by usage_count, and 0 <= success_rate <= 1; find_best_template and
\* apply_template leave both unchanged.
C30_UsageStatistics ==
    /\ [](LET template == usage.template
              count == Len(usage.calls)
          IN /\ template.usage_count = count
             /\ count > 0 =>
                   template.success_rate.num * count
                       = Successes(usage.calls) * template.success_rate.den
             /\ 0 <= template.success_rate.num
             /\ template.success_rate.num <= template.success_rate.den)
    /\ [][(pc' \in {"selected", "extracted"} \/ call'.op = "apply_template") =>
            usage'.template = usage.template]_vars

\* a success, a failure and a success were recorded, then the template was
\* selected and applied: two thirds
C30_Witness ==
    /\ pc = "extracted"
    /\ usage.calls = <<TRUE, FALSE, TRUE>>
    /\ usage.template.usage_count = 3
    /\ usage.template.success_rate = [num |-> 2, den |-> 3]

====
